---- MODULE Spec2Model ----
(***************************************************************************)
(* Model of nova/volume/driver.py: the command retry loop, the volume      *)
(* create/delete operations of the LVM, RBD and Sheepdog drivers, and the  *)
(* export operations of the iSCSI and AoE drivers against the slot         *)
(* registry (the db API, which lives outside the driver module), the       *)
(* iSCSI discover_volume of the compute host, the setup checks and path    *)
(* functions, and the LoggingVolumeDriver.                                 *)
(***************************************************************************)
EXTENDS Integers, Sequences, FiniteSets, TLC

(***************************************************************************)
(* Bounds and program constants                                            *)
(***************************************************************************)
\* largest value of FLAGS.num_shell_tries explored by SpecTry
MaxShellTries == 3
\* FLAGS.num_shell_tries default, used by the drivers' specifications
DefaultShellTries == 3
\* number of volume records
NumVols == 4
\* FLAGS.iscsi_num_targets: target numbers per host
NumTargets == 2
\* FLAGS.num_shelves and FLAGS.blades_per_shelf
NumShelves == 1
BladesPerShelf == 2
\* number of driver processes
NumProcs == 2
\* number of export calls made in one behaviour of SpecExport
MaxExportCalls == 3
\* number of driver calls made in one behaviour of SpecVol
MaxCalls == 3
\* longest provider_location string, in characters
MaxLocLen == 5
\* largest number of lines printed by the discovery command
MaxLines == 2
\* number of calls made in one behaviour of SpecAdmin and SpecLogging
MaxQueries == 2
\* longest volume name, in characters
MaxNameLen == 2

\* volume ids; the record of volume v has size v - 1 (0 is a valid size)
Vols == 1..NumVols
SizeOf(v) == v - 1

VARIABLES
    \* ---- _try_execute (SpecTry)
    num_shell_tries,   \* FLAGS.num_shell_tries
    flag_kind,         \* type of its value: "int" (the default, or set by the
                       \*   program) | "str" (parsed from the flag file or the
                       \*   command line: the flag is a DEFINE_string)
    behaviour,         \* executor behaviour: attempt number -> succeeds?
    t_pc,              \* "idle" | "loop" | "sleep" | "returned" | "raised"
    tries,             \* local variable tries
    t_log,             \* events of the call: <<"exec", ok>> and <<"sleep", d>>
    t_err,             \* attempt whose ProcessExecutionError was raised (0: none)
    \* ---- create_volume / delete_volume (SpecVol)
    v_driver,          \* driver class in use: "lvm" | "rbd" | "sheepdog"
    backing,           \* volume -> size of its backing store, NoBacking if absent
    v_pc,              \* position of the call in progress, "idle" if none
    v_call,            \* the call in progress: [op, vol, existed]
    v_tries,           \* tries of the _try_execute in progress
    v_log,             \* commands issued by the call in progress: <<cmd, arg, ok>>
    v_hist,            \* completed calls: [op, vol, existed, log, res, exists]
    \* ---- export operations (SpecExport)
    proto,             \* driver class in use: "iscsi" | "aoe"
    rows,              \* registry: set of rows [slot, vol], vol = NoVol if free
    tool,              \* export tool: slot -> 0 (none), 1 (target / set up),
                       \*   2 (target with LUN / running)
    e_pc,              \* process -> position of its call, "idle" if none
    e_call,            \* process -> its current or last call [op, vol]
    e_idx,             \* process -> loop index of the population pass
    e_slot,            \* process -> slot returned by the registry
    e_tries,           \* process -> tries of its _try_execute
    e_cmds,            \* process -> tool commands of the call: <<cmd, slot, ok>>
    e_res,             \* process -> outcome of its last call, "none" while running
    e_calls,           \* number of calls made
    e_started,         \* the calls made: set of <<op, vol>>
    \* ---- iSCSI discover_volume (SpecDiscover)
    d_loc,             \* volume['provider_location'], NoLocation if None
    d_auth,            \* volume['provider_auth'] as its tokens, NoAuth if None
    d_op,              \* the call made: "none" | "discover_volume" |
                       \*   "undiscover_volume"
    d_pc,              \* position of the call, "idle" before and "done" after it
    d_props,           \* iscsi_properties, <<>> until computed
    d_out,             \* lines printed by the discovery command
    d_tries,           \* failed attempts of the login command
    d_cmds,            \* iscsiadm commands issued: <<cmd, ok>>
    d_res              \* outcome of the call, "none" until it ends

tryVars == <<num_shell_tries, flag_kind, behaviour, t_pc, tries, t_log, t_err>>
volVars == <<v_driver, backing, v_pc, v_call, v_tries, v_log, v_hist>>

expVars == <<proto, rows, tool, e_pc, e_call, e_idx, e_slot, e_tries, e_cmds,
             e_res, e_calls, e_started>>

discVars == <<d_loc, d_auth, d_op, d_pc, d_props, d_out, d_tries, d_cmds,
              d_res>>

vars == <<tryVars, volVars, expVars, discVars>>

(***************************************************************************)
(* VolumeDriver._try_execute                                               *)
(***************************************************************************)
\* Mutant: the retry test is off by one (tries > num_shell_tries).
TryIterationOffByOne(ok, tr, nst) ==
    IF ok THEN [next |-> "return", tries |-> tr]
    ELSE IF tr + 1 > nst
         THEN [next |-> "raise", tries |-> tr + 1]
         ELSE [next |-> "sleep", tries |-> tr + 1]

\* One iteration of the while-True loop up to the sleep: ok is the outcome of
\* self._execute, tr the value of tries on entry, nst is FLAGS.num_shell_tries.
TryIteration(ok, tr, nst) ==
    IF ok THEN [next |-> "return", tries |-> tr]
    ELSE IF tr + 1 >= nst
         THEN [next |-> "raise", tries |-> tr + 1]
         ELSE [next |-> "sleep", tries |-> tr + 1]

\* Mutant: linear instead of quadratic back-off (time.sleep(tries * 2)).
BackoffLinear(tr) == tr * 2

\* time.sleep(tries ** 2)
Backoff(tr) == tr * tr

\* number of self._execute calls made so far by the _try_execute call
Attempts(log) == Cardinality({i \in 1..Len(log) : log[i][1] = "exec"})

\* the variables of the other specifications, which SpecTry leaves alone
VolIdle ==
    /\ v_driver = "lvm"
    /\ backing = [v \in Vols |-> <<>>]
    /\ v_pc = "idle"
    /\ v_call = <<>>
    /\ v_tries = 0
    /\ v_log = <<>>
    /\ v_hist = <<>>

ExpIdle ==
    /\ proto = "iscsi"
    /\ rows = {}
    /\ tool = <<>>
    /\ e_pc = <<>>
    /\ e_call = <<>>
    /\ e_idx = <<>>
    /\ e_slot = <<>>
    /\ e_tries = <<>>
    /\ e_cmds = <<>>
    /\ e_res = <<>>
    /\ e_calls = 0
    /\ e_started = {}

\* volume['provider_location'] and volume['provider_auth'] when they are None
NoLocation == <<"None">>
NoAuth == <<>>

DiscIdle ==
    /\ d_loc = NoLocation
    /\ d_auth = NoAuth
    /\ d_op = "none"
    /\ d_pc = "idle"
    /\ d_props = <<>>
    /\ d_out = <<>>
    /\ d_tries = 0
    /\ d_cmds = <<>>
    /\ d_res = "none"

TryInit ==
    /\ VolIdle
    /\ ExpIdle
    /\ DiscIdle
    /\ num_shell_tries \in (0 - 1)..MaxShellTries
    /\ flag_kind = "int"
    /\ behaviour \in [1..MaxShellTries + 1 -> BOOLEAN]
    /\ t_pc = "idle"
    /\ tries = 0
    /\ t_log = <<>>
    /\ t_err = 0

\* entry of _try_execute: tries = 0
TryCall ==
    /\ t_pc = "idle"
    /\ tries' = 0
    /\ t_pc' = "loop"
    /\ UNCHANGED <<num_shell_tries, flag_kind, behaviour, t_log, t_err, volVars, expVars, discVars>>

\* One iteration when FLAGS.num_shell_tries holds a string: in Python 2 a
\* number is smaller than any string, so tries >= FLAGS.num_shell_tries is
\* false whatever the string
TryIterationStr(ok, tr) ==
    IF ok THEN [next |-> "return", tries |-> tr]
    ELSE [next |-> "sleep", tries |-> tr + 1]

\* self._execute(*command) and the except clause up to the raise; the model
\* follows the call for MaxShellTries + 1 attempts
TryAttempt ==
    /\ t_pc = "loop"
    /\ Attempts(t_log) < MaxShellTries + 1
    /\ LET n  == Attempts(t_log) + 1
           ok == behaviour[n]
           r  == IF flag_kind = "str" THEN TryIterationStr(ok, tries)
                 ELSE TryIteration(ok, tries, num_shell_tries)
       IN /\ tries' = r.tries
          /\ t_log' = Append(t_log, <<"exec", ok>>)
          /\ t_pc' = CASE r.next = "return" -> "returned"
                       [] r.next = "raise"  -> "raised"
                       [] OTHER             -> "sleep"
          /\ t_err' = IF r.next = "raise" THEN n ELSE 0
    /\ UNCHANGED <<num_shell_tries, flag_kind, behaviour, volVars, expVars, discVars>>

\* time.sleep(tries ** 2), then the next iteration
TrySleep ==
    /\ t_pc = "sleep"
    /\ t_log' = Append(t_log, <<"sleep", Backoff(tries)>>)
    /\ t_pc' = "loop"
    /\ UNCHANGED <<num_shell_tries, flag_kind, behaviour, tries, t_err, volVars, expVars, discVars>>

TryNext == TryCall \/ TryAttempt \/ TrySleep

SpecTry == TryInit /\ [][TryNext]_vars

\* _try_execute under every way of configuring FLAGS.num_shell_tries:
\* flags.DEFINE_string('num_shell_tries', 3, ..) leaves the default an integer
\* and yields a string for a value given in the flag file or on the command
\* line
TryConfiguredInit ==
    /\ VolIdle
    /\ ExpIdle
    /\ DiscIdle
    /\ num_shell_tries \in (0 - 1)..MaxShellTries
    /\ flag_kind \in {"int", "str"}
    /\ behaviour \in [1..MaxShellTries + 1 -> BOOLEAN]
    /\ t_pc = "idle"
    /\ tries = 0
    /\ t_log = <<>>
    /\ t_err = 0

SpecTryConfigured == TryConfiguredInit /\ [][TryNext]_vars

\* number of failed self._execute calls before position j of the log
FailedBefore(log, j) ==
    Cardinality({i \in 1..(j - 1) : log[i] = <<"exec", FALSE>>})

\* C6: with num_shell_tries = 3, _try_execute attempts until the first success
\* or until 3 attempts failed: after k < 3 failures and a success it returns
\* after exactly k + 1 attempts; if every attempt fails it makes exactly 3
\* attempts and raises the error of the last one.
C6_TryExecuteThreeTries ==
    num_shell_tries = 3 =>
      /\ Attempts(t_log) <= 3
      /\ \A j \in 1..Len(t_log) :
            t_log[j][1] = "exec" =>
               t_log[j][2] = behaviour[FailedBefore(t_log, j) + 1]
      /\ t_pc = "returned" =>
            \E k \in 0..2 : /\ \A i \in 1..k : ~behaviour[i]
                            /\ behaviour[k + 1]
                            /\ Attempts(t_log) = k + 1
      /\ t_pc = "raised" =>
            /\ \A i \in 1..3 : ~behaviour[i]
            /\ Attempts(t_log) = 3
            /\ t_err = 3

\* C6 witness: two failures, then a success on the third attempt.
C6_Witness ==
    /\ num_shell_tries = 3
    /\ t_pc = "returned"
    /\ Attempts(t_log) = 3
    /\ ~behaviour[1] /\ ~behaviour[2] /\ behaviour[3]

\* C7: the wait between failed attempt k and attempt k + 1 is exactly k * k,
\* and no wait follows a successful attempt or the final failed attempt.
C7_QuadraticBackoff ==
    /\ \A j \in 1..Len(t_log) :
          t_log[j][1] = "sleep" =>
             /\ j > 1
             /\ t_log[j - 1] = <<"exec", FALSE>>
             /\ t_log[j][2] = FailedBefore(t_log, j) * FailedBefore(t_log, j)
    /\ \A j \in 2..Len(t_log) :
          t_log[j][1] = "exec" => t_log[j - 1][1] = "sleep"
    /\ \A j \in 1..Len(t_log) :
          t_log[j] = <<"exec", TRUE>> => j = Len(t_log)
    /\ t_pc \in {"returned", "raised"} => t_log[Len(t_log)][1] = "exec"

\* C7 witness: a call that waited 1 and then 4 time units.
C7_Witness ==
    /\ Len(t_log) >= 4
    /\ t_log[2] = <<"sleep", 1>>
    /\ t_log[4] = <<"sleep", 4>>

\* C38: for every configured num_shell_tries and every executor behaviour,
\* a _try_execute call makes at least one and at most max(1, num_shell_tries)
\* attempts; after a failed attempt that reaches this number it has raised,
\* so with a value of 0 or less it makes one attempt and raises on its
\* failure.
C38_AttemptsBounded ==
    LET most == IF num_shell_tries > 1 THEN num_shell_tries ELSE 1
    IN /\ Attempts(t_log) <= most
       /\ t_pc \in {"returned", "raised"} => Attempts(t_log) >= 1
       /\ (Attempts(t_log) = most /\ t_log[Len(t_log)] = <<"exec", FALSE>>)
             => t_pc = "raised"

(***************************************************************************)
(* create_volume / delete_volume of VolumeDriver (inherited by the AoE and *)
(* iSCSI drivers), RBDDriver and SheepdogDriver                            *)
(***************************************************************************)
NoBacking == <<>>

\* Mutant: create_volume without the size-0 branch.
SizeStrNoMinimum(size) == <<size, "G">>

\* sizestr of VolumeDriver.create_volume and SheepdogDriver.create_volume
SizeStr(size) == IF size = 0 THEN <<100, "M">> ELSE <<size, "G">>

\* size (in megabytes) of RBDDriver.create_volume
RbdSize(size) == IF size = 0 THEN <<100, "M">> ELSE <<size * 1024, "M">>

\* count= of the dd command of VolumeDriver.delete_volume (blocks of 1M)
ZeroFillCount(size) == size * 1024

\* Exit status of a command that needs the volume's backing store to exist
\* (lvdisplay, lvremove, rbd rm, collie vdi delete): it exits non-zero when the
\* store is absent and may fail transiently when it is present.
NeedsBacking(v) == IF backing[v] = NoBacking THEN {FALSE} ELSE BOOLEAN

\* Exit status of a command that creates the backing store (lvcreate, rbd
\* create, qemu-img create): it exits non-zero when the store exists already.
NeedsNoBacking(v) == IF backing[v] = NoBacking THEN BOOLEAN ELSE {FALSE}

\* the variables of SpecTry, which the other specifications leave alone
TryIdle ==
    /\ num_shell_tries = DefaultShellTries
    /\ flag_kind = "int"
    /\ behaviour = [i \in 1..MaxShellTries + 1 |-> TRUE]
    /\ t_pc = "idle"
    /\ tries = 0
    /\ t_log = <<>>
    /\ t_err = 0

VolInit ==
    /\ TryIdle
    /\ ExpIdle
    /\ DiscIdle
    /\ v_driver \in {"lvm", "rbd", "sheepdog"}
    /\ backing = [v \in Vols |-> NoBacking]
    /\ v_pc = "idle"
    /\ v_call = <<>>
    /\ v_tries = 0
    /\ v_log = <<>>
    /\ v_hist = <<>>

\* the call in progress ends with res: "ok" (it returned) or "error" (it raised)
VolFinish(res, log, newBacking) ==
    /\ v_hist' = Append(v_hist, [op |-> v_call.op, vol |-> v_call.vol,
                                 existed |-> v_call.existed, log |-> log,
                                 res |-> res,
                                 exists |-> newBacking[v_call.vol] # NoBacking])
    /\ backing' = newBacking
    /\ v_pc' = "idle"
    /\ v_call' = <<>>
    /\ v_tries' = 0
    /\ v_log' = <<>>

\* one attempt of self._try_execute(cmd) inside a call: on success the call
\* goes on at position next (or ends when next is "idle"), on the last failure
\* it ends as onRaise says, otherwise it sleeps and tries again
VolTryStep(cmd, arg, ok, newBacking, next, onRaise) ==
    LET r   == TryIteration(ok, v_tries, num_shell_tries)
        log == Append(v_log, <<cmd, arg, ok>>)
    IN CASE r.next = "return" /\ next = "idle" -> VolFinish("ok", log, newBacking)
         [] r.next = "return" /\ next # "idle" ->
               /\ v_pc' = next
               /\ v_tries' = 0
               /\ v_log' = log
               /\ backing' = newBacking
               /\ UNCHANGED <<v_call, v_hist>>
         [] r.next = "raise" -> VolFinish(onRaise, log, newBacking)
         [] OTHER ->
               /\ v_tries' = r.tries
               /\ v_log' = log
               /\ backing' = newBacking
               /\ UNCHANGED <<v_pc, v_call, v_hist>>

\* a caller invokes driver.create_volume(volume)
CreateVolumeCall(v) ==
    /\ v_pc = "idle"
    /\ Len(v_hist) < MaxCalls
    /\ v_call' = [op |-> "create_volume", vol |-> v,
                  existed |-> backing[v] # NoBacking]
    /\ v_pc' = CASE v_driver = "lvm" -> "lvcreate"
                 [] v_driver = "rbd" -> "rbd_create"
                 [] OTHER            -> "qemu_img_create"
    /\ v_tries' = 0
    /\ v_log' = <<>>
    /\ UNCHANGED <<v_driver, backing, v_hist, tryVars, expVars, discVars>>

\* VolumeDriver.create_volume: _try_execute(lvcreate -L sizestr -n name vg)
LvCreate ==
    /\ v_pc = "lvcreate"
    /\ \E ok \in NeedsNoBacking(v_call.vol) :
          LET sz == SizeStr(SizeOf(v_call.vol))
          IN VolTryStep("lvcreate", sz, ok,
                        IF ok THEN [backing EXCEPT ![v_call.vol] = sz] ELSE backing,
                        "idle", "error")
    /\ UNCHANGED <<v_driver, tryVars, expVars, discVars>>

\* RBDDriver.create_volume: _try_execute(rbd --pool p --size size create name)
RbdCreate ==
    /\ v_pc = "rbd_create"
    /\ \E ok \in NeedsNoBacking(v_call.vol) :
          LET sz == RbdSize(SizeOf(v_call.vol))
          IN VolTryStep("rbd_create", sz, ok,
                        IF ok THEN [backing EXCEPT ![v_call.vol] = sz] ELSE backing,
                        "idle", "error")
    /\ UNCHANGED <<v_driver, tryVars, expVars, discVars>>

\* SheepdogDriver.create_volume: _try_execute(qemu-img create sheepdog:name sizestr)
SheepdogCreate ==
    /\ v_pc = "qemu_img_create"
    /\ \E ok \in NeedsNoBacking(v_call.vol) :
          LET sz == SizeStr(SizeOf(v_call.vol))
          IN VolTryStep("qemu_img_create", sz, ok,
                        IF ok THEN [backing EXCEPT ![v_call.vol] = sz] ELSE backing,
                        "idle", "error")
    /\ UNCHANGED <<v_driver, tryVars, expVars, discVars>>

\* a caller invokes driver.delete_volume(volume)
DeleteVolumeCall(v) ==
    /\ v_pc = "idle"
    /\ Len(v_hist) < MaxCalls
    /\ v_call' = [op |-> "delete_volume", vol |-> v,
                  existed |-> backing[v] # NoBacking]
    /\ v_pc' = CASE v_driver = "lvm" -> "lvdisplay"
                 [] v_driver = "rbd" -> "rbd_rm"
                 [] OTHER            -> "vdi_delete"
    /\ v_tries' = 0
    /\ v_log' = <<>>
    /\ UNCHANGED <<v_driver, backing, v_hist, tryVars, expVars, discVars>>

\* Mutant: the except clause of the lvdisplay probe re-raises.
ProbeFailureReraised == "error"

\* VolumeDriver.delete_volume, except Exception: return True
ProbeFailure == "ok"

\* VolumeDriver.delete_volume: try: _try_execute(lvdisplay vg/name)
LvDisplay ==
    /\ v_pc = "lvdisplay"
    /\ \E ok \in NeedsBacking(v_call.vol) :
          VolTryStep("lvdisplay", 0, ok, backing, "dd", ProbeFailure)
    /\ UNCHANGED <<v_driver, tryVars, expVars, discVars>>

\* Mutant: the dd command runs with check_exit_code=False.
ZeroFillUnchecked == FALSE

\* VolumeDriver.delete_volume: self._execute(dd ...) checks the exit code
ZeroFillChecked == TRUE

\* VolumeDriver.delete_volume: _execute(dd if=/dev/zero of=path count=.. bs=1M)
ZeroFill ==
    /\ v_pc = "dd"
    /\ \E ok \in BOOLEAN :
          LET log == Append(v_log, <<"dd", ZeroFillCount(SizeOf(v_call.vol)), ok>>)
          IN IF ok \/ ~ZeroFillChecked
             THEN /\ v_pc' = "lvremove"
                  /\ v_tries' = 0
                  /\ v_log' = log
                  /\ UNCHANGED <<backing, v_call, v_hist>>
             ELSE VolFinish("error", log, backing)
    /\ UNCHANGED <<v_driver, tryVars, expVars, discVars>>

\* VolumeDriver.delete_volume: _try_execute(lvremove -f vg/name)
LvRemove ==
    /\ v_pc = "lvremove"
    /\ \E ok \in NeedsBacking(v_call.vol) :
          VolTryStep("lvremove", 0, ok,
                     IF ok THEN [backing EXCEPT ![v_call.vol] = NoBacking] ELSE backing,
                     "idle", "error")
    /\ UNCHANGED <<v_driver, tryVars, expVars, discVars>>

\* RBDDriver.delete_volume: _try_execute(rbd --pool p rm name)
RbdRm ==
    /\ v_pc = "rbd_rm"
    /\ \E ok \in NeedsBacking(v_call.vol) :
          VolTryStep("rbd_rm", 0, ok,
                     IF ok THEN [backing EXCEPT ![v_call.vol] = NoBacking] ELSE backing,
                     "idle", "error")
    /\ UNCHANGED <<v_driver, tryVars, expVars, discVars>>

\* SheepdogDriver.delete_volume: _try_execute(collie vdi delete name)
SheepdogDelete ==
    /\ v_pc = "vdi_delete"
    /\ \E ok \in NeedsBacking(v_call.vol) :
          VolTryStep("vdi_delete", 0, ok,
                     IF ok THEN [backing EXCEPT ![v_call.vol] = NoBacking] ELSE backing,
                     "idle", "error")
    /\ UNCHANGED <<v_driver, tryVars, expVars, discVars>>

VolNext ==
    \/ \E v \in Vols : CreateVolumeCall(v)
    \/ LvCreate
    \/ RbdCreate
    \/ SheepdogCreate
    \/ \E v \in Vols : DeleteVolumeCall(v)
    \/ LvDisplay
    \/ ZeroFill
    \/ LvRemove
    \/ RbdRm
    \/ SheepdogDelete

SpecVol == VolInit /\ [][VolNext]_vars

\* the commands named cmd in a call's log
Issued(log, cmd) == {j \in 1..Len(log) : log[j][1] = cmd}

DeleteCalls == {i \in 1..Len(v_hist) : v_hist[i].op = "delete_volume"}

\* C8: with the LVM-backed drivers, delete_volume on a volume whose logical
\* volume does not exist returns success and issues neither dd nor lvremove;
\* two delete_volume calls in a row on such a volume both succeed.
C8_DeleteAbsentLogicalVolume ==
    v_driver = "lvm" =>
      /\ \A i \in DeleteCalls :
            ~v_hist[i].existed =>
               /\ v_hist[i].res = "ok"
               /\ Issued(v_hist[i].log, "dd") = {}
               /\ Issued(v_hist[i].log, "lvremove") = {}
      /\ (v_pc # "idle" /\ v_call.op = "delete_volume" /\ ~v_call.existed) =>
            v_pc = "lvdisplay" /\ Issued(v_log, "dd") = {}
      /\ \A i \in DeleteCalls :
            (/\ i + 1 \in DeleteCalls
             /\ v_hist[i + 1].vol = v_hist[i].vol
             /\ ~v_hist[i].exists) =>
               /\ v_hist[i + 1].res = "ok"
               /\ Issued(v_hist[i + 1].log, "lvremove") = {}

\* C8 witness: a volume is created, deleted, and deleted again; the second
\* delete_volume finds no logical volume and returns success.
C8_Witness ==
    /\ v_driver = "lvm"
    /\ Len(v_hist) = 3
    /\ v_hist[1].op = "create_volume" /\ v_hist[1].res = "ok"
    /\ v_hist[2].op = "delete_volume" /\ v_hist[2].vol = v_hist[1].vol
    /\ v_hist[2].res = "ok" /\ ~v_hist[2].exists
    /\ v_hist[3].op = "delete_volume" /\ v_hist[3].vol = v_hist[1].vol
    /\ ~v_hist[3].existed /\ v_hist[3].res = "ok"

\* C9: with the RBD and Sheepdog drivers, delete_volume on a volume whose
\* backing object is already absent (the remove command exits non-zero)
\* returns success rather than an error.
C9_DeleteAbsentObject ==
    v_driver \in {"rbd", "sheepdog"} =>
      \A i \in DeleteCalls : ~v_hist[i].existed => v_hist[i].res = "ok"

\* C10: in LVM delete_volume no lvremove is issued without a preceding
\* successful dd (zero-fill) in the same call, and a failed dd ends the call
\* with an error, the logical volume still being there.
C10_ZeroFillBeforeRemove ==
    v_driver = "lvm" =>
      /\ \A j \in Issued(v_log, "lvremove") :
            \E i \in Issued(v_log, "dd") : i < j /\ v_log[i][3]
      /\ \A i \in DeleteCalls :
            LET log == v_hist[i].log
            IN /\ \A j \in Issued(log, "lvremove") :
                     \E k \in Issued(log, "dd") : k < j /\ log[k][3]
               /\ (\E k \in Issued(log, "dd") : ~log[k][3]) =>
                     /\ v_hist[i].res = "error"
                     /\ v_hist[i].exists
                     /\ Issued(log, "lvremove") = {}
               /\ (\E k \in Issued(log, "lvdisplay") : log[k][3]) =>
                     Issued(log, "dd") # {}

\* C10 witness: a delete_volume that zero-filled and then removed the volume.
C10_Witness ==
    /\ v_driver = "lvm"
    /\ \E i \in DeleteCalls :
          /\ v_hist[i].existed /\ ~v_hist[i].exists /\ v_hist[i].res = "ok"
          /\ \E k \in Issued(v_hist[i].log, "dd") : v_hist[i].log[k][3]
          /\ Issued(v_hist[i].log, "lvremove") # {}

\* C31: whenever the LVM delete_volume returns success the logical volume
\* is absent; an existing volume whose lvdisplay probe fails on every try is
\* not reported as deleted.
C31_DeleteSuccessMeansAbsent ==
    v_driver = "lvm" =>
       \A i \in DeleteCalls : v_hist[i].res = "ok" => ~v_hist[i].exists

\* a requested backing size <<n, unit>> in megabytes
Megabytes(sz) == IF sz[2] = "G" THEN sz[1] * 1024 ELSE sz[1]

CreateCalls == {i \in 1..Len(v_hist) : v_hist[i].op = "create_volume"}

\* C11: whenever LVM delete_volume has zero-filled a volume (it is about to
\* remove it), the dd count, in blocks of 1 MiB, is at least the size in
\* megabytes of the backing store create_volume allocated, size 0 included.
C11_ZeroFillCoversBacking ==
    (v_driver = "lvm" /\ v_pc = "lvremove") =>
       \A k \in Issued(v_log, "dd") :
          v_log[k][2] >= Megabytes(backing[v_call.vol])

\* the size create_volume has to request for a volume of the given size
RequestedSize(driver, size) ==
    IF driver = "rbd"
    THEN (IF size = 0 THEN <<100, "M">> ELSE <<size * 1024, "M">>)
    ELSE (IF size = 0 THEN <<100, "M">> ELSE <<size, "G">>)

\* C12: every create command of create_volume asks for a non-zero size: the
\* fixed minimum 100M (RBD: 100 megabytes) for size 0, and for a size s > 0
\* s gigabytes with LVM and Sheepdog and s * 1024 megabytes with RBD.
C12_NoZeroSizedBacking ==
    /\ \A k \in 1..Len(v_log) :
          v_call.op = "create_volume" =>
             /\ v_log[k][2] = RequestedSize(v_driver, SizeOf(v_call.vol))
             /\ v_log[k][2][1] > 0
    /\ \A i \in CreateCalls :
          /\ v_hist[i].log # <<>>
          /\ \A k \in 1..Len(v_hist[i].log) :
                /\ v_hist[i].log[k][2] =
                      RequestedSize(v_driver, SizeOf(v_hist[i].vol))
                /\ v_hist[i].log[k][2][1] > 0
          /\ v_hist[i].res = "ok" =>
                backing[v_hist[i].vol] \in
                   {NoBacking, RequestedSize(v_driver, SizeOf(v_hist[i].vol))}

\* C12 witness: a volume of size 0 and a volume of a size above 0 have both
\* been created.
C12_Witness ==
    \E i \in CreateCalls, j \in CreateCalls :
       /\ SizeOf(v_hist[i].vol) = 0 /\ v_hist[i].res = "ok"
       /\ SizeOf(v_hist[j].vol) > 0 /\ v_hist[j].res = "ok"
       /\ backing[v_hist[i].vol] # NoBacking
       /\ backing[v_hist[j].vol] # NoBacking

(***************************************************************************)
(* Export operations of ISCSIDriver and AOEDriver.  The registry (the db   *)
(* API the drivers call through self.db) is outside the driver module; it  *)
(* is modelled as a table of rows [slot, vol] with atomic operations.      *)
(***************************************************************************)
Procs == 1..NumProcs
Hosts == {"h1", "h2"}
NoVol == 0
NoSlot == <<>>

\* volume['host']: volume 1 lives on host h2, the others on host h1
HostOf(v) == IF v = 1 THEN "h2" ELSE "h1"

\* ---- the registry

\* iscsi_target_count_by_host
TargetCount(rs, host) == Cardinality({r \in rs : r.slot[1] = host})

\* export_device_count
DeviceCount(rs) == Cardinality(rs)

\* iscsi_target_create_safe / export_device_create_safe: create if absent
CreateSafe(rs, slot) ==
    IF \E r \in rs : r.slot = slot THEN rs
    ELSE rs \cup {[slot |-> slot, vol |-> NoVol]}

\* the free rows volume_allocate_iscsi_target chooses from
FreeTargets(rs, host) == {r \in rs : r.slot[1] = host /\ r.vol = NoVol}

\* the free rows volume_allocate_shelf_and_blade chooses from
FreeBlades(rs) == {r \in rs : r.vol = NoVol}

\* the allocation: row r of the table now belongs to volume v
Allocated(rs, r, v) == (rs \ {r}) \cup {[slot |-> r.slot, vol |-> v]}

\* volume_get_iscsi_target_num / volume_get_shelf_and_blade: the slots
\* recorded for volume v (NotFound is raised when there is none)
SlotsOf(rs, v) == {r.slot : r \in {x \in rs : x.vol = v}}

\* the slots of volume v are released (the rows are free again)
Released(rs, v) ==
    {r \in rs : r.vol # v} \cup
    {[slot |-> r.slot, vol |-> NoVol] : r \in {x \in rs : x.vol = v}}

\* ---- the drivers

\* Mutant: the loop starts at 0 and stops before iscsi_num_targets.
TargetNumsFromZero == 0..(NumTargets - 1)

\* Mutant: the loop stops one target short (xrange(1, iscsi_num_targets)).
TargetNumsShort == 1..(NumTargets - 1)

\* xrange(1, FLAGS.iscsi_num_targets + 1): target ids start at 1, not 0
TargetNums == 1..NumTargets

\* Mutant: the population pass inserts the row without the create-if-absent test.
IscsiEnsureRowUnsafe(rs, slot) == rs \cup {[slot |-> slot, vol |-> NoVol]}

\* Mutant: the population pass replaces the row it finds.
IscsiEnsureRowOverwrite(rs, slot) ==
    {r \in rs : r.slot # slot} \cup {[slot |-> slot, vol |-> NoVol]}

\* self.db.iscsi_target_create_safe(context, target)
IscsiEnsureRow(rs, slot) == CreateSafe(rs, slot)

\* the slots the tool state ranges over
ToolSlots ==
    IF proto = "iscsi" THEN Hosts \X (0..NumTargets)
    ELSE (0..NumShelves) \X (0..BladesPerShelf)

ExpInit ==
    /\ TryIdle
    /\ VolIdle
    /\ DiscIdle
    /\ proto \in {"iscsi", "aoe"}
    /\ rows = {}
    /\ tool = [s \in ToolSlots |-> 0]
    /\ e_pc = [p \in Procs |-> "idle"]
    /\ e_call = [p \in Procs |-> <<>>]
    /\ e_idx = [p \in Procs |-> 0]
    /\ e_slot = [p \in Procs |-> NoSlot]
    /\ e_tries = [p \in Procs |-> 0]
    /\ e_cmds = [p \in Procs |-> <<>>]
    /\ e_res = [p \in Procs |-> "none"]
    /\ e_calls = 0
    /\ e_started = {}

\* Mutant: the driver keeps the slot of its last call.
ExpCallKeepsSlot(p, op, v, pc) ==
    /\ e_pc[p] = "idle"
    /\ e_calls < MaxExportCalls
    /\ e_pc' = [e_pc EXCEPT ![p] = pc]
    /\ e_call' = [e_call EXCEPT ![p] = [op |-> op, vol |-> v]]
    /\ e_idx' = [e_idx EXCEPT ![p] = 0]
    /\ e_tries' = [e_tries EXCEPT ![p] = 0]
    /\ e_cmds' = [e_cmds EXCEPT ![p] = <<>>]
    /\ e_res' = [e_res EXCEPT ![p] = "none"]
    /\ e_calls' = e_calls + 1
    /\ e_started' = e_started \cup {<<op, v>>}
    /\ UNCHANGED <<proto, rows, tool, e_slot, tryVars, volVars, discVars>>

\* process p makes the call op on volume v, which starts at position pc
ExpCall(p, op, v, pc) ==
    /\ e_pc[p] = "idle"
    /\ e_calls < MaxExportCalls
    /\ e_pc' = [e_pc EXCEPT ![p] = pc]
    /\ e_call' = [e_call EXCEPT ![p] = [op |-> op, vol |-> v]]
    /\ e_idx' = [e_idx EXCEPT ![p] = 0]
    /\ e_slot' = [e_slot EXCEPT ![p] = NoSlot]
    /\ e_tries' = [e_tries EXCEPT ![p] = 0]
    /\ e_cmds' = [e_cmds EXCEPT ![p] = <<>>]
    /\ e_res' = [e_res EXCEPT ![p] = "none"]
    /\ e_calls' = e_calls + 1
    /\ e_started' = e_started \cup {<<op, v>>}
    /\ UNCHANGED <<proto, rows, tool, tryVars, volVars, discVars>>

\* the call of process p returns ("ok") or raises (any other res)
ExpFinish(p, res) ==
    /\ e_pc' = [e_pc EXCEPT ![p] = "idle"]
    /\ e_res' = [e_res EXCEPT ![p] = res]
    /\ e_tries' = [e_tries EXCEPT ![p] = 0]

\* the call of process p goes on at position pc
ExpGoto(p, pc) ==
    /\ e_pc' = [e_pc EXCEPT ![p] = pc]
    /\ e_tries' = [e_tries EXCEPT ![p] = 0]
    /\ UNCHANGED e_res

\* process p has issued command cmd for slot, which exited with ok
ExpLog(p, cmd, slot, ok) ==
    e_cmds' = [e_cmds EXCEPT ![p] = Append(@, <<cmd, slot, ok>>)]

\* ---- ISCSIDriver.create_export

IscsiCreateExportCall(p, v) ==
    /\ proto = "iscsi"
    /\ ExpCall(p, "create_export", v, "count")

\* _ensure_iscsi_targets: the count and the early return
IscsiEnsureCount(p) ==
    /\ proto = "iscsi"
    /\ e_pc[p] = "count"
    /\ IF TargetCount(rows, HostOf(e_call[p].vol)) >= NumTargets
       THEN /\ ExpGoto(p, "allocate")
            /\ UNCHANGED e_idx
       ELSE /\ ExpGoto(p, "populate")
            /\ e_idx' = [e_idx EXCEPT ![p] = 1]
    /\ UNCHANGED <<proto, rows, tool, e_call, e_slot, e_cmds, e_calls, e_started,
                   tryVars, volVars, discVars>>

\* the k-th target number of the population loop
TargetNumAt(k) == CHOOSE n \in TargetNums : Cardinality({m \in TargetNums : m < n}) = k - 1

\* _ensure_iscsi_targets: one iteration of the for loop
IscsiEnsureCreate(p) ==
    /\ proto = "iscsi"
    /\ e_pc[p] = "populate"
    /\ rows' = IscsiEnsureRow(rows, <<HostOf(e_call[p].vol), TargetNumAt(e_idx[p])>>)
    /\ e_idx' = [e_idx EXCEPT ![p] = @ + 1]
    /\ IF e_idx[p] >= Cardinality(TargetNums)
       THEN ExpGoto(p, "allocate")
       ELSE UNCHANGED <<e_pc, e_tries, e_res>>
    /\ UNCHANGED <<proto, tool, e_call, e_slot, e_cmds, e_calls, e_started,
                   tryVars, volVars, discVars>>

\* create_export: self.db.volume_allocate_iscsi_target(context, id, host)
IscsiAllocate(p) ==
    /\ proto = "iscsi"
    /\ e_pc[p] = "allocate"
    /\ LET free == FreeTargets(rows, HostOf(e_call[p].vol))
       IN IF free = {}
          THEN /\ ExpFinish(p, "PoolExhausted")
               /\ UNCHANGED <<rows, e_slot>>
          ELSE \E r \in free :
                  /\ rows' = Allocated(rows, r, e_call[p].vol)
                  /\ e_slot' = [e_slot EXCEPT ![p] = r.slot]
                  /\ ExpGoto(p, "new_target")
    /\ UNCHANGED <<proto, tool, e_call, e_idx, e_cmds, e_calls, e_started,
                   tryVars, volVars, discVars>>

\* Exit status of ietadm --op new --tid: non-zero when the target exists
\* already, and the command may fail on its own.
NewTargetStatus(slot) == IF tool[slot] = 0 THEN BOOLEAN ELSE {FALSE}

\* Exit status of ietadm --op new --tid --lun=0: it needs the target and
\* fails when the LUN exists already.
NewLunStatus(slot) == IF tool[slot] = 1 THEN BOOLEAN ELSE {FALSE}

\* Mutant: the exit code of the target registration is not checked.
IscsiNewTargetUnchecked(p) ==
    /\ proto = "iscsi"
    /\ e_pc[p] = "new_target"
    /\ \E ok \in NewTargetStatus(e_slot[p]) :
          /\ ExpLog(p, "new_target", e_slot[p], ok)
          /\ tool' = IF ok THEN [tool EXCEPT ![e_slot[p]] = 1] ELSE tool
          /\ ExpGoto(p, "new_lun")
    /\ UNCHANGED <<proto, rows, e_call, e_idx, e_slot, e_calls, e_started,
                   tryVars, volVars, discVars>>

\* create_export: self._execute(ietadm --op new --tid=.. --params Name=..)
IscsiNewTarget(p) ==
    /\ proto = "iscsi"
    /\ e_pc[p] = "new_target"
    /\ \E ok \in NewTargetStatus(e_slot[p]) :
          /\ ExpLog(p, "new_target", e_slot[p], ok)
          /\ tool' = IF ok THEN [tool EXCEPT ![e_slot[p]] = 1] ELSE tool
          /\ IF ok THEN ExpGoto(p, "new_lun") ELSE ExpFinish(p, "error")
    /\ UNCHANGED <<proto, rows, e_call, e_idx, e_slot, e_calls, e_started,
                   tryVars, volVars, discVars>>

\* Mutant: a failed LUN bind releases the slot again.
IscsiNewLunRollsBack(p) ==
    /\ proto = "iscsi"
    /\ e_pc[p] = "new_lun"
    /\ \E ok \in NewLunStatus(e_slot[p]) :
          /\ ExpLog(p, "new_lun", e_slot[p], ok)
          /\ tool' = IF ok THEN [tool EXCEPT ![e_slot[p]] = 2] ELSE tool
          /\ rows' = IF ok THEN rows ELSE Released(rows, e_call[p].vol)
          /\ ExpFinish(p, IF ok THEN "ok" ELSE "error")
    /\ UNCHANGED <<proto, e_call, e_idx, e_slot, e_calls, e_started,
                   tryVars, volVars, discVars>>

\* create_export: self._execute(ietadm --op new --tid=.. --lun=0 --params Path=..)
IscsiNewLun(p) ==
    /\ proto = "iscsi"
    /\ e_pc[p] = "new_lun"
    /\ \E ok \in NewLunStatus(e_slot[p]) :
          /\ ExpLog(p, "new_lun", e_slot[p], ok)
          /\ tool' = IF ok THEN [tool EXCEPT ![e_slot[p]] = 2] ELSE tool
          /\ ExpFinish(p, IF ok THEN "ok" ELSE "error")
    /\ UNCHANGED <<proto, rows, e_call, e_idx, e_slot, e_calls, e_started,
                   tryVars, volVars, discVars>>

\* ---- ISCSIDriver.remove_export

IscsiRemoveExportCall(p, v) ==
    /\ proto = "iscsi"
    /\ ExpCall(p, "remove_export", v, "lookup")

\* Mutant: remove_export lets the NotFound of the lookup through.
RemoveNotFoundRaised == "NotFound"

\* remove_export: except exception.NotFound: return
RemoveNotFound == "ok"

\* remove_export: volume_get_iscsi_target_num, except NotFound: return
IscsiRemoveLookup(p) ==
    /\ proto = "iscsi"
    /\ e_pc[p] = "lookup"
    /\ LET slots == SlotsOf(rows, e_call[p].vol)
       IN IF slots = {}
          THEN /\ ExpFinish(p, RemoveNotFound)
               /\ UNCHANGED e_slot
          ELSE \E sl \in slots :
                  /\ e_slot' = [e_slot EXCEPT ![p] = sl]
                  /\ ExpGoto(p, "show")
    /\ UNCHANGED <<proto, rows, tool, e_call, e_idx, e_cmds, e_calls, e_started,
                   tryVars, volVars, discVars>>

\* Exit status of an ietadm command on an existing target (show, delete):
\* non-zero when the target does not exist.
TargetStatus(slot) == IF tool[slot] >= 1 THEN BOOLEAN ELSE {FALSE}

\* Exit status of ietadm --op delete --tid --lun=0: it needs the LUN.
LunStatus(slot) == IF tool[slot] = 2 THEN BOOLEAN ELSE {FALSE}

\* Mutant: remove_export lets the error of ietadm --op show through.
ShowFailureRaised == "error"

\* remove_export: except Exception as e: return
ShowFailure == "ok"

\* remove_export: try: ietadm --op show --tid=..; except Exception: return
IscsiRemoveShow(p) ==
    /\ proto = "iscsi"
    /\ e_pc[p] = "show"
    /\ \E ok \in TargetStatus(e_slot[p]) :
          /\ ExpLog(p, "show", e_slot[p], ok)
          /\ IF ok THEN ExpGoto(p, "delete_lun") ELSE ExpFinish(p, ShowFailure)
    /\ UNCHANGED <<proto, rows, tool, e_call, e_idx, e_slot, e_calls, e_started,
                   tryVars, volVars, discVars>>

\* remove_export: self._execute(ietadm --op delete --tid=.. --lun=0)
IscsiDeleteLun(p) ==
    /\ proto = "iscsi"
    /\ e_pc[p] = "delete_lun"
    /\ \E ok \in LunStatus(e_slot[p]) :
          /\ ExpLog(p, "delete_lun", e_slot[p], ok)
          /\ tool' = IF ok THEN [tool EXCEPT ![e_slot[p]] = 1] ELSE tool
          /\ IF ok THEN ExpGoto(p, "delete_target") ELSE ExpFinish(p, "error")
    /\ UNCHANGED <<proto, rows, e_call, e_idx, e_slot, e_calls, e_started,
                   tryVars, volVars, discVars>>

\* remove_export: self._execute(ietadm --op delete --tid=..)
IscsiDeleteTarget(p) ==
    /\ proto = "iscsi"
    /\ e_pc[p] = "delete_target"
    /\ \E ok \in TargetStatus(e_slot[p]) :
          /\ ExpLog(p, "delete_target", e_slot[p], ok)
          /\ tool' = IF ok THEN [tool EXCEPT ![e_slot[p]] = 0] ELSE tool
          /\ ExpFinish(p, IF ok THEN "ok" ELSE "error")
    /\ UNCHANGED <<proto, rows, e_call, e_idx, e_slot, e_calls, e_started,
                   tryVars, volVars, discVars>>

\* ---- AOEDriver.create_export

\* number of rows _ensure_blades creates
TotalBlades == NumShelves * BladesPerShelf

\* the k-th (shelf_id, blade_id) of the nested xrange loops of _ensure_blades
BladeAt(k) == <<(k - 1) \div BladesPerShelf, (k - 1) % BladesPerShelf>>

\* Mutant: the population pass inserts the row without the create-if-absent test.
AoeEnsureRowUnsafe(rs, slot) == rs \cup {[slot |-> slot, vol |-> NoVol]}

\* self.db.export_device_create_safe(context, dev)
AoeEnsureRow(rs, slot) == CreateSafe(rs, slot)

\* one attempt of self._try_execute(cmd) of process p: on success the call
\* goes on at position next (it returns when next is "idle"), on the last
\* failure it raises, otherwise it sleeps and tries again
ExpTryStep(p, ok, next) ==
    LET r == TryIteration(ok, e_tries[p], num_shell_tries)
    IN CASE r.next = "return" /\ next = "idle" -> ExpFinish(p, "ok")
         [] r.next = "return" /\ next # "idle" -> ExpGoto(p, next)
         [] r.next = "raise" -> ExpFinish(p, "error")
         [] OTHER -> /\ e_tries' = [e_tries EXCEPT ![p] = r.tries]
                     /\ UNCHANGED <<e_pc, e_res>>

AoeCreateExportCall(p, v) ==
    /\ proto = "aoe"
    /\ ExpCall(p, "create_export", v, "count")

\* _ensure_blades: the count and the early return
AoeEnsureCount(p) ==
    /\ proto = "aoe"
    /\ e_pc[p] = "count"
    /\ IF DeviceCount(rows) >= TotalBlades
       THEN /\ ExpGoto(p, "allocate")
            /\ UNCHANGED e_idx
       ELSE /\ ExpGoto(p, "populate")
            /\ e_idx' = [e_idx EXCEPT ![p] = 1]
    /\ UNCHANGED <<proto, rows, tool, e_call, e_slot, e_cmds, e_calls, e_started,
                   tryVars, volVars, discVars>>

\* _ensure_blades: one iteration of the inner for loop
AoeEnsureCreate(p) ==
    /\ proto = "aoe"
    /\ e_pc[p] = "populate"
    /\ rows' = AoeEnsureRow(rows, BladeAt(e_idx[p]))
    /\ e_idx' = [e_idx EXCEPT ![p] = @ + 1]
    /\ IF e_idx[p] >= TotalBlades
       THEN ExpGoto(p, "allocate")
       ELSE UNCHANGED <<e_pc, e_tries, e_res>>
    /\ UNCHANGED <<proto, tool, e_call, e_slot, e_cmds, e_calls, e_started,
                   tryVars, volVars, discVars>>

\* create_export: self.db.volume_allocate_shelf_and_blade(context, id)
AoeAllocate(p) ==
    /\ proto = "aoe"
    /\ e_pc[p] = "allocate"
    /\ LET free == FreeBlades(rows)
       IN IF free = {}
          THEN /\ ExpFinish(p, "PoolExhausted")
               /\ UNCHANGED <<rows, e_slot>>
          ELSE \E r \in free :
                  /\ rows' = Allocated(rows, r, e_call[p].vol)
                  /\ e_slot' = [e_slot EXCEPT ![p] = r.slot]
                  /\ ExpGoto(p, "setup")
    /\ UNCHANGED <<proto, tool, e_call, e_idx, e_cmds, e_calls, e_started,
                   tryVars, volVars, discVars>>

\* Exit status of vblade-persist setup: non-zero when the pair is set up already.
SetupStatus(slot) == IF tool[slot] = 0 THEN BOOLEAN ELSE {FALSE}

\* create_export: self._try_execute(vblade-persist setup shelf blade dev path)
AoeSetup(p) ==
    /\ proto = "aoe"
    /\ e_pc[p] = "setup"
    /\ \E ok \in SetupStatus(e_slot[p]) :
          /\ ExpLog(p, "setup", e_slot[p], ok)
          /\ tool' = IF ok THEN [tool EXCEPT ![e_slot[p]] = 1] ELSE tool
          /\ ExpTryStep(p, ok, "auto")
    /\ UNCHANGED <<proto, rows, e_call, e_idx, e_slot, e_calls, e_started,
                   tryVars, volVars, discVars>>

\* Mutant: the exit code of vblade-persist auto all is checked.
AoeAutoAllChecked(p) ==
    /\ proto = "aoe"
    /\ e_pc[p] = "auto"
    /\ \E ok \in BOOLEAN :
          /\ ExpLog(p, "auto_all", NoSlot, ok)
          /\ IF ok THEN ExpGoto(p, "start") ELSE ExpFinish(p, "error")
    /\ UNCHANGED <<proto, rows, tool, e_call, e_idx, e_slot, e_calls, e_started,
                   tryVars, volVars, discVars>>

\* create_export: time.sleep(2); _execute(vblade-persist auto all,
\* check_exit_code=False)
AoeAutoAll(p) ==
    /\ proto = "aoe"
    /\ e_pc[p] = "auto"
    /\ \E ok \in BOOLEAN :
          /\ ExpLog(p, "auto_all", NoSlot, ok)
          /\ ExpGoto(p, "start")
    /\ UNCHANGED <<proto, rows, tool, e_call, e_idx, e_slot, e_calls, e_started,
                   tryVars, volVars, discVars>>

\* create_export: _execute(vblade-persist start all, check_exit_code=False);
\* when the command works every export that is set up runs
AoeStartAll(p) ==
    /\ proto = "aoe"
    /\ e_pc[p] = "start"
    /\ \E ok \in BOOLEAN :
          /\ ExpLog(p, "start_all", NoSlot, ok)
          /\ tool' = IF ok THEN [s \in DOMAIN tool |-> IF tool[s] = 1 THEN 2 ELSE tool[s]]
                     ELSE tool
          /\ ExpFinish(p, "ok")
    /\ UNCHANGED <<proto, rows, e_call, e_idx, e_slot, e_calls, e_started,
                   tryVars, volVars, discVars>>

\* ---- AOEDriver.remove_export

AoeRemoveExportCall(p, v) ==
    /\ proto = "aoe"
    /\ ExpCall(p, "remove_export", v, "lookup")

\* remove_export: self.db.volume_get_shelf_and_blade(context, id); NotFound
\* is not caught
AoeRemoveLookup(p) ==
    /\ proto = "aoe"
    /\ e_pc[p] = "lookup"
    /\ LET slots == SlotsOf(rows, e_call[p].vol)
       IN IF slots = {}
          THEN /\ ExpFinish(p, "NotFound")
               /\ UNCHANGED e_slot
          ELSE \E sl \in slots :
                  /\ e_slot' = [e_slot EXCEPT ![p] = sl]
                  /\ ExpGoto(p, "stop")
    /\ UNCHANGED <<proto, rows, tool, e_call, e_idx, e_cmds, e_calls, e_started,
                   tryVars, volVars, discVars>>

\* Exit status of vblade-persist stop: non-zero when the export is not running.
StopStatus(slot) == IF tool[slot] = 2 THEN BOOLEAN ELSE {FALSE}

\* Exit status of vblade-persist destroy: it needs a stopped export.
DestroyStatus(slot) == IF tool[slot] = 1 THEN BOOLEAN ELSE {FALSE}

\* remove_export: self._try_execute(vblade-persist stop shelf blade)
AoeStop(p) ==
    /\ proto = "aoe"
    /\ e_pc[p] = "stop"
    /\ \E ok \in StopStatus(e_slot[p]) :
          /\ ExpLog(p, "stop", e_slot[p], ok)
          /\ tool' = IF ok THEN [tool EXCEPT ![e_slot[p]] = 1] ELSE tool
          /\ ExpTryStep(p, ok, "destroy")
    /\ UNCHANGED <<proto, rows, e_call, e_idx, e_slot, e_calls, e_started,
                   tryVars, volVars, discVars>>

\* remove_export: self._try_execute(vblade-persist destroy shelf blade)
AoeDestroy(p) ==
    /\ proto = "aoe"
    /\ e_pc[p] = "destroy"
    /\ \E ok \in DestroyStatus(e_slot[p]) :
          /\ ExpLog(p, "destroy", e_slot[p], ok)
          /\ tool' = IF ok THEN [tool EXCEPT ![e_slot[p]] = 0] ELSE tool
          /\ ExpTryStep(p, ok, "idle")
    /\ UNCHANGED <<proto, rows, e_call, e_idx, e_slot, e_calls, e_started,
                   tryVars, volVars, discVars>>

\* ---- ISCSIDriver.ensure_export

IscsiEnsureExportCall(p, v) ==
    /\ proto = "iscsi"
    /\ ExpCall(p, "ensure_export", v, "ens_lookup")

\* Mutant: ensure_export without a recorded slot goes on to allocate one.
EnsureNotFoundAllocates == "allocate"

\* ensure_export: except exception.NotFound: return
EnsureNotFound == "idle"

\* ensure_export: try: volume_get_iscsi_target_num; except NotFound: return
IscsiEnsureLookup(p) ==
    /\ proto = "iscsi"
    /\ e_pc[p] = "ens_lookup"
    /\ LET slots == SlotsOf(rows, e_call[p].vol)
       IN IF slots = {}
          THEN /\ IF EnsureNotFound = "idle"
                  THEN ExpFinish(p, "ok")
                  ELSE ExpGoto(p, EnsureNotFound)
               /\ UNCHANGED e_slot
          ELSE \E sl \in slots :
                  /\ e_slot' = [e_slot EXCEPT ![p] = sl]
                  /\ ExpGoto(p, "ens_target")
    /\ UNCHANGED <<proto, rows, tool, e_call, e_idx, e_cmds, e_calls, e_started,
                   tryVars, volVars, discVars>>

\* Mutant: ensure_export checks the exit code of the target registration.
IscsiEnsureTargetChecked(p) ==
    /\ proto = "iscsi"
    /\ e_pc[p] = "ens_target"
    /\ \E ok \in NewTargetStatus(e_slot[p]) :
          /\ ExpLog(p, "new_target", e_slot[p], ok)
          /\ tool' = IF ok THEN [tool EXCEPT ![e_slot[p]] = 1] ELSE tool
          /\ IF ok THEN ExpGoto(p, "ens_lun") ELSE ExpFinish(p, "error")
    /\ UNCHANGED <<proto, rows, e_call, e_idx, e_slot, e_calls, e_started,
                   tryVars, volVars, discVars>>

\* ensure_export: self._sync_exec(ietadm --op new --tid=.. --params Name=..,
\* check_exit_code=False)
IscsiEnsureTarget(p) ==
    /\ proto = "iscsi"
    /\ e_pc[p] = "ens_target"
    /\ \E ok \in NewTargetStatus(e_slot[p]) :
          /\ ExpLog(p, "new_target", e_slot[p], ok)
          /\ tool' = IF ok THEN [tool EXCEPT ![e_slot[p]] = 1] ELSE tool
          /\ ExpGoto(p, "ens_lun")
    /\ UNCHANGED <<proto, rows, e_call, e_idx, e_slot, e_calls, e_started,
                   tryVars, volVars, discVars>>

\* ensure_export: self._sync_exec(ietadm --op new --tid=.. --lun=0 --params
\* Path=.., check_exit_code=False)
IscsiEnsureLun(p) ==
    /\ proto = "iscsi"
    /\ e_pc[p] = "ens_lun"
    /\ \E ok \in NewLunStatus(e_slot[p]) :
          /\ ExpLog(p, "new_lun", e_slot[p], ok)
          /\ tool' = IF ok THEN [tool EXCEPT ![e_slot[p]] = 2] ELSE tool
          /\ ExpFinish(p, "ok")
    /\ UNCHANGED <<proto, rows, e_call, e_idx, e_slot, e_calls, e_started,
                   tryVars, volVars, discVars>>

\* ---- AOEDriver.ensure_export

AoeEnsureExportCall(p, v) ==
    /\ proto = "aoe"
    /\ ExpCall(p, "ensure_export", v, "ens_pass")

\* ensure_export: pass (vblade-persist recreates the exports)
AoeEnsurePass(p) ==
    /\ proto = "aoe"
    /\ e_pc[p] = "ens_pass"
    /\ ExpFinish(p, "ok")
    /\ UNCHANGED <<proto, rows, tool, e_call, e_idx, e_slot, e_cmds, e_calls,
                   e_started, tryVars, volVars, discVars>>

\* ---- the caller destroys the volume record: its slots are released

VolumeDestroy(v) ==
    /\ e_calls < MaxExportCalls
    /\ SlotsOf(rows, v) # {}
    /\ \A p \in Procs : e_pc[p] # "idle" => e_call[p].vol # v
    /\ rows' = Released(rows, v)
    /\ e_calls' = e_calls + 1
    /\ e_started' = e_started \cup {<<"volume_destroy", v>>}
    /\ UNCHANGED <<proto, tool, e_pc, e_call, e_idx, e_slot, e_tries, e_cmds,
                   e_res, tryVars, volVars, discVars>>

ExpNext ==
    \/ \E p \in Procs, v \in Vols : IscsiCreateExportCall(p, v)
    \/ \E p \in Procs : IscsiEnsureCount(p)
    \/ \E p \in Procs : IscsiEnsureCreate(p)
    \/ \E p \in Procs : IscsiAllocate(p)
    \/ \E p \in Procs : IscsiNewTarget(p)
    \/ \E p \in Procs : IscsiNewLun(p)
    \/ \E p \in Procs, v \in Vols : IscsiRemoveExportCall(p, v)
    \/ \E p \in Procs : IscsiRemoveLookup(p)
    \/ \E p \in Procs : IscsiRemoveShow(p)
    \/ \E p \in Procs : IscsiDeleteLun(p)
    \/ \E p \in Procs : IscsiDeleteTarget(p)
    \/ \E p \in Procs, v \in Vols : AoeCreateExportCall(p, v)
    \/ \E p \in Procs : AoeEnsureCount(p)
    \/ \E p \in Procs : AoeEnsureCreate(p)
    \/ \E p \in Procs : AoeAllocate(p)
    \/ \E p \in Procs : AoeSetup(p)
    \/ \E p \in Procs : AoeAutoAll(p)
    \/ \E p \in Procs : AoeStartAll(p)
    \/ \E p \in Procs, v \in Vols : AoeRemoveExportCall(p, v)
    \/ \E p \in Procs : AoeRemoveLookup(p)
    \/ \E p \in Procs : AoeStop(p)
    \/ \E p \in Procs : AoeDestroy(p)
    \/ \E v \in Vols : VolumeDestroy(v)

SpecExport == ExpInit /\ [][ExpNext]_vars

\* the rows that are allocated to a volume (the live Export Records)
Records == {r \in rows : r.vol # NoVol}
RecordsOn(host) == {r \in Records : r.slot[1] = host}

\* no call is in progress
AllIdle == \A p \in Procs : e_pc[p] = "idle"

\* C1: in every reachable state no two distinct volumes hold the same slot
\* (target number on a host, or shelf/blade pair) while both have a live
\* Export Record.
C1_UniqueSlots ==
    \A r1 \in Records, r2 \in Records : r1.slot = r2.slot => r1.vol = r2.vol

\* C1 witness: two create_export calls for different volumes of one host have
\* both been given a target number and run concurrently.
C1_Witness ==
    /\ proto = "iscsi"
    /\ e_pc[1] = "new_target" /\ e_pc[2] = "new_target"
    /\ e_call[1].vol # e_call[2].vol
    /\ HostOf(e_call[1].vol) = HostOf(e_call[2].vol)
    /\ [slot |-> e_slot[1], vol |-> e_call[1].vol] \in rows
    /\ [slot |-> e_slot[2], vol |-> e_call[2].vol] \in rows

\* only create_export calls, for distinct volumes of host, have been made
OnlyCreateExports(host) ==
    /\ \A c \in e_started : c[1] = "create_export" /\ HostOf(c[2]) = host
    /\ Cardinality(e_started) = e_calls

C2_State ==
    proto = "iscsi" =>
      /\ \A h \in Hosts : Cardinality(RecordsOn(h)) <= NumTargets
      /\ \A p \in Procs : e_res[p] = "PoolExhausted" => e_cmds[p] = <<>>
      /\ \A h \in Hosts :
            (AllIdle /\ OnlyCreateExports(h)) =>
               Cardinality(RecordsOn(h)) =
                  IF e_calls <= NumTargets THEN e_calls ELSE NumTargets

C2_Action ==
    \A p \in Procs :
       (proto = "iscsi" /\ e_pc[p] = "allocate" /\ e_pc'[p] # "allocate") =>
          LET h == HostOf(e_call[p].vol)
          IN IF Cardinality(RecordsOn(h)) = NumTargets
             THEN /\ e_res'[p] = "PoolExhausted"
                  /\ e_pc'[p] = "idle"
                  /\ e_cmds'[p] = <<>>
                  /\ rows' = rows
             ELSE /\ e_res'[p] = "none"
                  /\ e_pc'[p] = "new_target"
                  /\ [slot |-> e_slot'[p], vol |-> e_call[p].vol] \in rows'
                  /\ [slot |-> e_slot'[p], vol |-> NoVol] \in rows

\* C2: with a host pool of N target numbers an allocation succeeds exactly
\* when fewer than N are allocated; create_export calls for more than N
\* distinct volumes leave exactly N allocated, and every other one fails with
\* PoolExhausted before it has issued any tool command.
C2_PoolExhausted == []C2_State /\ [][C2_Action]_vars

\* C2 witness: N + 1 create_export calls for distinct volumes of one host
\* have ended, one of them with PoolExhausted.
C2_Witness ==
    /\ proto = "iscsi"
    /\ AllIdle
    /\ OnlyCreateExports("h1")
    /\ e_calls = NumTargets + 1
    /\ Cardinality(RecordsOn("h1")) = NumTargets
    /\ \E p \in Procs : e_res[p] = "PoolExhausted" /\ e_cmds[p] = <<>>

\* exactly two create_export calls, for two different volumes, have been made
TwoCreateExports ==
    /\ e_calls = 2
    /\ Cardinality(e_started) = 2
    /\ \A c \in e_started : c[1] = "create_export"

\* C3: with an empty AoE pool of 1 shelf x 2 blades, two create_export calls
\* for two different volumes end, however they interleave, with one volume
\* holding (0,0) and the other (0,1) and the pool holding just these two slots.
C3_TwoBlades ==
    (/\ proto = "aoe"
     /\ NumShelves = 1 /\ BladesPerShelf = 2
     /\ TwoCreateExports
     /\ AllIdle) =>
       \E v \in Vols, w \in Vols :
          /\ v # w
          /\ e_started = {<<"create_export", v>>, <<"create_export", w>>}
          /\ rows = {[slot |-> <<0, 0>>, vol |-> v], [slot |-> <<0, 1>>, vol |-> w]}

\* C3 witness: both calls ran the whole of _ensure_blades (each counted fewer
\* than 2 rows before the other had finished) and both have ended.
C3_Witness ==
    /\ proto = "aoe"
    /\ NumShelves = 1 /\ BladesPerShelf = 2
    /\ TwoCreateExports
    /\ AllIdle
    /\ e_idx[1] = 3 /\ e_idx[2] = 3
    /\ e_slot[1] # e_slot[2]
    /\ e_res[1] = "ok" /\ e_res[2] = "ok"

\* C4: each volume has at most one Export Record (at most one slot allocated
\* to it), also when create_export is invoked again for the same volume
\* without a remove_export in between.
C4_OneRecordPerVolume ==
    \A v \in Vols : Cardinality(SlotsOf(rows, v)) <= 1

\* the slots a populated pool holds for the volume v (its host's target
\* numbers 1..N, or every shelf/blade pair)
PoolOf(v) ==
    IF proto = "iscsi" THEN {HostOf(v)} \X (1..NumTargets)
    ELSE (0..(NumShelves - 1)) \X (0..(BladesPerShelf - 1))

PoolSlots(v) ==
    IF proto = "iscsi" THEN {r.slot : r \in {x \in rows : x.slot[1] = HostOf(v)}}
    ELSE {r.slot : r \in rows}

C5_State ==
    /\ \A r1 \in rows, r2 \in rows : r1.slot = r2.slot => r1 = r2
    /\ \A v \in Vols : PoolSlots(v) \subseteq PoolOf(v)
    /\ \A p \in Procs :
          (/\ e_call[p] # <<>>
           /\ e_call[p].op = "create_export"
           /\ e_pc[p] \notin {"count", "populate"}) =>
             PoolSlots(e_call[p].vol) = PoolOf(e_call[p].vol)

C5_Action ==
    \A p \in Procs :
       (e_pc[p] = "populate" /\ e_idx'[p] # e_idx[p]) =>
          /\ rows \subseteq rows'
          /\ Records' = Records

\* C5: lazy pool population is idempotent and never overwrites: once a
\* create_export has passed its population pass the pool of its host holds
\* exactly the target numbers 1..N (every shelf/blade pair), each once, and a
\* population step leaves every existing row, allocated or free, as it was.
C5_PopulateIdempotent == []C5_State /\ [][C5_Action]_vars

\* C5 witness: a population pass is about to create a slot that is already
\* allocated to a volume.
C5_Witness ==
    \E p \in Procs :
       /\ proto = "iscsi"
       /\ e_pc[p] = "populate"
       /\ \E r \in Records :
             r.slot = <<HostOf(e_call[p].vol), TargetNumAt(e_idx[p])>>

\* C13: when the export tool rejects the target registration of iSCSI
\* create_export because the target exists already (or the LUN bind because
\* the LUN exists already), create_export swallows the error and returns
\* success.
C13_AlreadyExistsTolerated ==
    [][\A p \in Procs :
          (/\ proto = "iscsi"
           /\ \/ e_pc[p] = "new_target" /\ tool[e_slot[p]] >= 1
              \/ e_pc[p] = "new_lun" /\ tool[e_slot[p]] = 2
           /\ e_pc'[p] = "idle") =>
             e_res'[p] = "ok"]_vars

\* C14: the step of ensure_export that finds no slot recorded for the volume
\* (iSCSI: the lookup raises NotFound; AoE: the method body is pass) ends the
\* call with success, with no tool command issued and with the registry and
\* the export tool as they were.
C14_State ==
    \A p \in Procs :
       (/\ e_call[p] # <<>>
        /\ e_call[p].op = "ensure_export"
        /\ e_pc[p] = "idle"
        /\ e_slot[p] = NoSlot) =>
          e_res[p] = "ok" /\ e_cmds[p] = <<>>

C14_Action ==
    \A p \in Procs :
       (\/ /\ e_pc[p] = "ens_lookup"
           /\ e_pc'[p] # "ens_lookup"
           /\ SlotsOf(rows, e_call[p].vol) = {}
        \/ /\ e_pc[p] = "ens_pass"
           /\ e_pc'[p] # "ens_pass") =>
          /\ e_pc'[p] = "idle"
          /\ e_res'[p] = "ok"
          /\ e_cmds'[p] = <<>>
          /\ e_slot'[p] = NoSlot
          /\ rows' = rows
          /\ tool' = tool

C14_EnsureExportNoSlot == []C14_State /\ [][C14_Action]_vars

\* C14 witness: ensure_export has returned for a volume without a slot while
\* another volume holds one and a slot of the pool is free.
C14_Witness ==
    /\ e_call[1] # <<>>
    /\ e_call[1].op = "ensure_export"
    /\ e_pc[1] = "idle"
    /\ e_res[1] = "ok"
    /\ e_slot[1] = NoSlot
    /\ SlotsOf(rows, e_call[1].vol) = {}
    /\ Records # {}
    /\ \E r \in rows : r.vol = NoVol

\* C15: when remove_export returns successfully for a volume that had a slot,
\* the slot has been released: no slot is recorded for the volume any more
\* and the row of the slot is free.
C15_SlotReleased ==
    [][\A p \in Procs :
          (/\ e_pc[p] # "idle"
           /\ e_call[p].op = "remove_export"
           /\ e_pc'[p] = "idle"
           /\ e_res'[p] = "ok"
           /\ e_slot'[p] # NoSlot) =>
             /\ SlotsOf(rows', e_call[p].vol) = {}
             /\ [slot |-> e_slot'[p], vol |-> NoVol] \in rows']_vars

\* the delete commands in a call's log
Deletes(cmds) ==
    {j \in 1..Len(cmds) : cmds[j][1] \in {"delete_lun", "delete_target"}}

\* C16: when the target of the recorded slot is not in the export tool, iSCSI
\* remove_export returns success after the show command, with no delete
\* command issued and nothing changed.
C16_State ==
    \A p \in Procs :
       (/\ proto = "iscsi"
        /\ e_call[p] # <<>>
        /\ e_call[p].op = "remove_export"
        /\ \E j \in 1..Len(e_cmds[p]) :
              e_cmds[p][j][1] = "show" /\ ~e_cmds[p][j][3]) =>
          /\ e_pc[p] = "idle"
          /\ e_res[p] = "ok"
          /\ Deletes(e_cmds[p]) = {}

C16_Action ==
    \A p \in Procs :
       (/\ proto = "iscsi"
        /\ e_pc[p] = "show"
        /\ e_pc'[p] # "show"
        /\ tool[e_slot[p]] = 0) =>
          /\ e_pc'[p] = "idle"
          /\ e_res'[p] = "ok"
          /\ e_cmds'[p] = <<<<"show", e_slot[p], FALSE>>>>
          /\ rows' = rows
          /\ tool' = tool

C16_RemoveExportAlreadyRemoved == []C16_State /\ [][C16_Action]_vars

\* C16 witness: create_export, remove_export and remove_export again for one
\* volume; the first remove_export deleted the target, the second one found
\* it gone and returned success after the show command.
C16_Witness ==
    /\ proto = "iscsi"
    /\ e_calls = 3
    /\ \E v \in Vols :
          /\ e_started = {<<"create_export", v>>, <<"remove_export", v>>}
          /\ e_call[1] = [op |-> "remove_export", vol |-> v]
          /\ Cardinality(SlotsOf(rows, v)) = 1
    /\ e_pc[1] = "idle"
    /\ e_res[1] = "ok"
    /\ e_cmds[1] = <<<<"show", e_slot[1], FALSE>>>>
    /\ tool[e_slot[1]] = 0

\* C17: iSCSI remove_export on a volume with no recorded slot returns success
\* at the lookup, with no tool command issued and the registry unchanged.
C17_State ==
    \A p \in Procs :
       (/\ proto = "iscsi"
        /\ e_call[p] # <<>>
        /\ e_call[p].op = "remove_export"
        /\ e_pc[p] = "idle"
        /\ e_slot[p] = NoSlot) =>
          e_res[p] = "ok" /\ e_cmds[p] = <<>>

C17_Action ==
    \A p \in Procs :
       (/\ proto = "iscsi"
        /\ e_pc[p] = "lookup"
        /\ e_pc'[p] # "lookup"
        /\ SlotsOf(rows, e_call[p].vol) = {}) =>
          /\ e_pc'[p] = "idle"
          /\ e_res'[p] = "ok"
          /\ e_cmds'[p] = <<>>
          /\ rows' = rows
          /\ tool' = tool

C17_RemoveExportNoSlot == []C17_State /\ [][C17_Action]_vars

\* C17 witness: remove_export has returned for a volume without a slot while
\* the pool is populated and another volume is exported.
C17_Witness ==
    /\ proto = "iscsi"
    /\ e_call[1] # <<>>
    /\ e_call[1].op = "remove_export"
    /\ e_pc[1] = "idle"
    /\ e_res[1] = "ok"
    /\ e_slot[1] = NoSlot
    /\ SlotsOf(rows, e_call[1].vol) = {}
    /\ Records # {}

\* C18: AoE remove_export returns success when no shelf/blade is recorded for
\* the volume, and when the stop or destroy command exits non-zero because
\* the export is already stopped or destroyed.
C18_AoeRemoveIdempotent ==
    [][\A p \in Procs :
          (/\ proto = "aoe"
           /\ e_pc'[p] = "idle"
           /\ \/ e_pc[p] = "lookup" /\ SlotsOf(rows, e_call[p].vol) = {}
              \/ e_pc[p] = "stop" /\ tool[e_slot[p]] # 2
              \/ e_pc[p] = "destroy" /\ tool[e_slot[p]] = 0) =>
             e_res'[p] = "ok"]_vars

(***************************************************************************)
(* ISCSIDriver.discover_volume on the compute host: the export properties  *)
(* from the stored provider_location or from a sendtargets discovery, then *)
(* the iscsiadm node commands.  Strings are sequences of characters.       *)
(***************************************************************************)
\* the characters of a provider_location
Chars == {"p", ",", " ", "q"}

\* the strings of at most n characters
Strings(n) == UNION {[1..k -> Chars] : k \in 0..n}

\* FLAGS.iscsi_ip_prefix and volume['name']
IpPrefix == <<"p">>
VolName == <<"q">>

\* provider_auth 'CHAP <username> <password>' after auth.split()
ChapAuth == <<"CHAP", "user", "secret">>

\* lines the discovery command may print: the volume's own target, the target
\* of a volume whose name starts with this volume's name, and a target
\* behind another address
OwnLine == <<"p", ",", "1", " ", "q">>
LongerNameLine == <<"p", ",", "1", " ", "q", "q">>
OtherAddressLine == <<"x", ",", "1", " ", "q">>
Lines == {OwnLine, LongerNameLine, OtherAddressLine}
DiscoveryOutputs == UNION {[1..k -> Lines] : k \in 0..MaxLines}

\* position of the first c in s, 0 if there is none
IndexOf(s, c) ==
    IF \E i \in 1..Len(s) : s[i] = c
    THEN CHOOSE i \in 1..Len(s) : s[i] = c /\ \A j \in 1..(i - 1) : s[j] # c
    ELSE 0

\* s.partition(c)
Partition(s, c) ==
    LET i == IndexOf(s, c)
    IN IF i = 0 THEN <<s, <<>>, <<>>>>
       ELSE <<SubSeq(s, 1, i - 1), <<c>>, SubSeq(s, i + 1, Len(s))>>

\* s.split(c)[0]
SplitFirst(s, c) == Partition(s, c)[1]

\* sub in s
Contains(sub, s) ==
    \E i \in 0..(Len(s) - Len(sub)) : SubSeq(s, i + 1, i + Len(sub)) = sub

\* Mutant: the stored location is never used.
LocationNeverStored(location) == FALSE

\* if location: (None and the empty string are false)
LocationStored(location) == location # NoLocation /\ location # <<>>

\* _do_iscsi_discovery: the test of the for loop over out.splitlines()
Matches(target) == Contains(IpPrefix, target) /\ Contains(VolName, target)

\* _do_iscsi_discovery: the first line that matches, None if there is none
FirstMatch(out) ==
    IF \E i \in 1..Len(out) : Matches(out[i])
    THEN out[CHOOSE i \in 1..Len(out) :
                Matches(out[i]) /\ \A j \in 1..(i - 1) : ~Matches(out[j])]
    ELSE NoLocation

\* _get_iscsi_properties from the partition of location on
IscsiProperties(location, discovered, auth) ==
    LET pt == Partition(location, " ")
    IN [target_discovered |-> discovered,
        target_iqn        |-> pt[3],
        target_portal     |-> SplitFirst(pt[1], ","),
        auth              |-> auth]

DiscInit ==
    /\ TryIdle
    /\ VolIdle
    /\ ExpIdle
    /\ d_loc \in Strings(MaxLocLen) \cup {NoLocation}
    /\ d_auth \in {NoAuth, ChapAuth}
    /\ d_op = "none"
    /\ d_pc = "idle"
    /\ d_props = <<>>
    /\ d_out = <<>>
    /\ d_tries = 0
    /\ d_cmds = <<>>
    /\ d_res = "none"

\* the call returns ("ok") or raises (any other res)
DiscFinish(res) ==
    /\ d_pc' = "done"
    /\ d_res' = res

\* Mutant: set_iscsi_auth does nothing.
AfterNodeNoAuth(props) == "login"

\* set_iscsi_auth: the first command after the node record, by auth_method
AfterNode(props) == IF props.auth # NoAuth THEN "auth_method" ELSE "login"

\* the first command after get_iscsi_properties_for_volume: set_iscsi_auth
\* in discover_volume, the node.startup update in undiscover_volume
AfterGetProperties(op, props) ==
    IF op = "undiscover_volume" THEN "startup_manual" ELSE AfterNode(props)

\* get_iscsi_properties_for_volume: --op new unless the target was discovered
AfterProperties(op, props) ==
    IF ~props.target_discovered THEN "node_new" ELSE AfterGetProperties(op, props)

\* a caller invokes driver.discover_volume(context, volume)
DiscoverVolumeCall ==
    /\ d_pc = "idle"
    /\ d_pc' = "props"
    /\ d_op' = "discover_volume"
    /\ UNCHANGED <<d_loc, d_auth, d_props, d_out, d_tries, d_cmds, d_res,
                   tryVars, volVars, expVars>>

\* _get_iscsi_properties: location = volume['provider_location']; if location
GetIscsiProperties ==
    /\ d_pc = "props"
    /\ IF LocationStored(d_loc)
       THEN LET props == IscsiProperties(d_loc, FALSE, d_auth)
            IN /\ d_props' = props
               /\ d_pc' = AfterProperties(d_op, props)
       ELSE /\ d_pc' = "discovery"
            /\ UNCHANGED d_props
    /\ UNCHANGED <<d_loc, d_auth, d_op, d_out, d_tries, d_cmds, d_res,
                   tryVars, volVars, expVars>>

\* _do_iscsi_discovery: iscsiadm -m discovery -t sendtargets -p host, then
\* if not location: raise exception.Error
DoIscsiDiscovery ==
    /\ d_pc = "discovery"
    /\ \E ok \in BOOLEAN :
          /\ d_cmds' = Append(d_cmds, <<"discovery", ok>>)
          /\ IF ~ok
             THEN /\ DiscFinish("ProcessExecutionError")
                  /\ UNCHANGED <<d_out, d_props>>
             ELSE \E out \in DiscoveryOutputs :
                     LET location == FirstMatch(out)
                         props    == IscsiProperties(location, TRUE, d_auth)
                     IN /\ d_out' = out
                        /\ IF location = NoLocation
                           THEN /\ DiscFinish("Error")
                                /\ UNCHANGED d_props
                           ELSE /\ d_props' = props
                                /\ d_pc' = AfterProperties(d_op, props)
                                /\ UNCHANGED d_res
    /\ UNCHANGED <<d_loc, d_auth, d_op, d_tries, tryVars, volVars, expVars>>

\* get_iscsi_properties_for_volume: _run_iscsiadm(iscsi_properties, --op new)
NodeNew ==
    /\ d_pc = "node_new"
    /\ \E ok \in BOOLEAN :
          /\ d_cmds' = Append(d_cmds, <<"node_new", ok>>)
          /\ IF ok
             THEN d_pc' = AfterGetProperties(d_op, d_props) /\ UNCHANGED d_res
             ELSE DiscFinish("ProcessExecutionError")
    /\ UNCHANGED <<d_loc, d_auth, d_op, d_props, d_out, d_tries, tryVars, volVars,
                   expVars>>

\* set_iscsi_auth: _iscsiadm_update of node.session.auth.authmethod,
\* .username and .password, one after the other
AuthUpdate ==
    /\ d_pc \in {"auth_method", "auth_username", "auth_password"}
    /\ \E ok \in BOOLEAN :
          /\ d_cmds' = Append(d_cmds, <<d_pc, ok>>)
          /\ IF ok
             THEN /\ d_pc' = CASE d_pc = "auth_method"   -> "auth_username"
                               [] d_pc = "auth_username" -> "auth_password"
                               [] OTHER                  -> "login"
                  /\ UNCHANGED d_res
             ELSE DiscFinish("ProcessExecutionError")
    /\ UNCHANGED <<d_loc, d_auth, d_op, d_props, d_out, d_tries, tryVars, volVars,
                   expVars>>

\* Mutant: the login runs with the default num_tries of _run_iscsiadm.
LoginAttemptsDefault == 1

\* discover_volume: num_tries=FLAGS.num_shell_tries
LoginAttempts == num_shell_tries

\* discover_volume: _run_iscsiadm(--login, num_tries=FLAGS.num_shell_tries);
\* except ProcessExecutionError: raise exception.Error(device not found)
Login ==
    /\ d_pc = "login"
    /\ \E ok \in BOOLEAN :
          /\ d_cmds' = Append(d_cmds, <<"login", ok>>)
          /\ IF ok
             THEN d_pc' = "startup" /\ UNCHANGED <<d_tries, d_res>>
             ELSE IF d_tries + 1 >= LoginAttempts
                  THEN DiscFinish("DeviceNotFound") /\ UNCHANGED d_tries
                  ELSE d_tries' = d_tries + 1 /\ UNCHANGED <<d_pc, d_res>>
    /\ UNCHANGED <<d_loc, d_auth, d_op, d_props, d_out, tryVars, volVars, expVars>>

\* discover_volume: _iscsiadm_update(node.startup, automatic), in the same
\* try block; then return mount_device
StartupUpdate ==
    /\ d_pc = "startup"
    /\ \E ok \in BOOLEAN :
          /\ d_cmds' = Append(d_cmds, <<"startup", ok>>)
          /\ DiscFinish(IF ok THEN "ok" ELSE "DeviceNotFound")
    /\ UNCHANGED <<d_loc, d_auth, d_op, d_props, d_out, d_tries, tryVars, volVars,
                   expVars>>

\* a caller invokes driver.undiscover_volume(volume)
UndiscoverVolumeCall ==
    /\ d_pc = "idle"
    /\ d_pc' = "props"
    /\ d_op' = "undiscover_volume"
    /\ UNCHANGED <<d_loc, d_auth, d_props, d_out, d_tries, d_cmds, d_res,
                   tryVars, volVars, expVars>>

\* undiscover_volume: _iscsiadm_update(node.startup, manual)
StartupManual ==
    /\ d_pc = "startup_manual"
    /\ \E ok \in BOOLEAN :
          /\ d_cmds' = Append(d_cmds, <<"startup_manual", ok>>)
          /\ IF ok
             THEN d_pc' = "logout" /\ UNCHANGED d_res
             ELSE DiscFinish("ProcessExecutionError")
    /\ UNCHANGED <<d_loc, d_auth, d_op, d_props, d_out, d_tries, tryVars,
                   volVars, expVars>>

\* undiscover_volume: _run_iscsiadm(iscsi_properties, --logout)
Logout ==
    /\ d_pc = "logout"
    /\ \E ok \in BOOLEAN :
          /\ d_cmds' = Append(d_cmds, <<"logout", ok>>)
          /\ DiscFinish(IF ok THEN "ok" ELSE "ProcessExecutionError")
    /\ UNCHANGED <<d_loc, d_auth, d_op, d_props, d_out, d_tries, tryVars,
                   volVars, expVars>>

DiscNext ==
    \/ DiscoverVolumeCall
    \/ GetIscsiProperties
    \/ DoIscsiDiscovery
    \/ NodeNew
    \/ AuthUpdate
    \/ Login
    \/ StartupUpdate
    \/ UndiscoverVolumeCall
    \/ StartupManual
    \/ Logout

SpecDiscover == DiscInit /\ [][DiscNext]_vars

\* C19: with a stored provider_location '<portal> <iqn>', the properties have
\* the whole first token (up to the first space) as target_portal, the rest
\* after that space as target_iqn, and target_discovered false.
C19_StoredLocationProperties ==
    (d_props # <<>> /\ d_cmds = <<>>) =>
       /\ d_props.target_discovered = FALSE
       /\ \A i \in 1..Len(d_loc) :
             (d_loc[i] = " " /\ \A j \in 1..(i - 1) : d_loc[j] # " ") =>
                /\ d_props.target_portal = SubSeq(d_loc, 1, i - 1)
                /\ d_props.target_iqn = SubSeq(d_loc, i + 1, Len(d_loc))

\* the discovery commands in the log
Discoveries == {j \in 1..Len(d_cmds) : d_cmds[j][1] = "discovery"}

\* C20: discover_volume issues the discovery query exactly when the volume
\* has no stored provider_location, as the first command; with a stored
\* location it never issues one; and when the discovery prints no target for
\* the volume it fails with an error with no other command issued.
C20_DiscoveryIffNoLocation ==
    /\ (d_loc # NoLocation /\ d_loc # <<>>) => Discoveries = {}
    /\ Discoveries \subseteq {1}
    /\ d_pc \notin {"idle", "props", "discovery"} =>
          (Discoveries # {} <=> (d_loc = NoLocation \/ d_loc = <<>>))
    /\ (/\ d_pc \notin {"idle", "props", "discovery"}
        /\ Discoveries # {}
        /\ \A k \in 1..Len(d_out) :
              ~(Contains(IpPrefix, d_out[k]) /\ Contains(VolName, d_out[k]))) =>
          /\ d_pc = "done"
          /\ d_res \in {"Error", "ProcessExecutionError"}
          /\ Len(d_cmds) = 1
          /\ d_props = <<>>

\* C20 witness: no location is stored, the discovery ran and printed only the
\* target of another address, and discover_volume failed after that one
\* command.
C20_Witness ==
    /\ d_loc = NoLocation
    /\ d_cmds = <<<<"discovery", TRUE>>>>
    /\ d_out = <<OtherAddressLine>>
    /\ d_pc = "done"
    /\ d_res = "Error"

\* C39: when the discovery output lists the volume's own target, alone or
\* together with the target of a volume whose name contains this volume's
\* name, in any order, the properties found by discovery name the volume's
\* own target.
C39_DiscoveryReturnsOwnTarget ==
    (/\ d_props # <<>>
     /\ d_props.target_discovered
     /\ \E k \in 1..Len(d_out) : d_out[k] = OwnLine) =>
       d_props.target_iqn = VolName

\* the commands named cmd in the log, and those among them that succeeded
Ran(cmd) == {j \in 1..Len(d_cmds) : d_cmds[j][1] = cmd}
Succeeded(cmd) == {j \in Ran(cmd) : d_cmds[j][2]}

AuthCommands == {"auth_method", "auth_username", "auth_password"}

\* C21: in discover_volume with a provider_auth, the updates of the
\* authentication method, username and password have all been issued and have
\* succeeded, in this order, before any login; without a provider_auth no
\* authentication update is issued.
C21_AuthBeforeLogin ==
    d_op = "discover_volume" =>
       /\ d_auth = NoAuth => \A c \in AuthCommands : Ran(c) = {}
       /\ d_auth # NoAuth =>
             \A l \in Ran("login") :
                \E a \in Succeeded("auth_method"),
                   b \in Succeeded("auth_username"),
                   c \in Succeeded("auth_password") : a < b /\ b < c /\ c < l
       /\ (d_auth # NoAuth /\ d_res = "ok") => Ran("login") # {}

\* C21 witness: a volume with provider_auth has been discovered.
C21_Witness ==
    /\ d_op = "discover_volume"
    /\ d_auth = ChapAuth
    /\ d_res = "ok"
    /\ Succeeded("login") # {}
    /\ \A c \in AuthCommands : Succeeded(c) # {}

\* C22: discover_volume attempts the login at most num_shell_tries times and
\* gives up only after that many failures; the startup update follows a
\* successful login; the call returns only when the login and the startup
\* update have both succeeded, and fails with the device-not-found error
\* when either has failed.
C22_LoginRetried ==
    d_op = "discover_volume" =>
       /\ Cardinality(Ran("login")) <= num_shell_tries
       /\ Cardinality(Succeeded("login")) <= 1
       /\ \A j \in Ran("startup") : j - 1 \in Succeeded("login")
       /\ d_res = "ok" =>
             /\ Succeeded("login") # {}
             /\ Succeeded("startup") # {}
       /\ (d_pc = "done" /\ Ran("login") # {} /\ d_res # "ok") =>
             /\ d_res = "DeviceNotFound"
             /\ \/ Succeeded("login") = {} /\
                   Cardinality(Ran("login")) = num_shell_tries
                \/ Succeeded("login") # {} /\ Ran("startup") # {} /\
                   Succeeded("startup") = {}
       /\ (Ran("login") # {} /\ Succeeded("login") = {} /\
           Cardinality(Ran("login")) < num_shell_tries) => d_pc = "login"

\* C22 witness: the login failed twice and succeeded on the third attempt,
\* and the volume has been discovered.
C22_Witness ==
    /\ d_op = "discover_volume"
    /\ Cardinality(Ran("login")) = 3
    /\ Succeeded("login") # {}
    /\ d_res = "ok"

\* C24: iSCSI undiscover_volume returns success to the caller also when the
\* startup-mode update or the logout command exits non-zero.
C24_UndiscoverBestEffort ==
    (/\ d_op = "undiscover_volume"
     /\ d_pc = "done"
     /\ \/ Ran("startup_manual") # Succeeded("startup_manual")
        \/ Ran("logout") # Succeeded("logout")) =>
       d_res = "ok"

(***************************************************************************)
(* check_for_export of ISCSIDriver and AOEDriver, and AOEDriver's          *)
(* discover_volume                                                         *)
(***************************************************************************)
Digits == <<"0", "1", "2", "3", "4", "5", "6", "7", "8", "9">>

\* str(n) and '%d' % n, as a sequence of digit characters
RECURSIVE Str(_)
Str(n) ==
    IF n < 10 THEN <<Digits[n + 1]>>
    ELSE Str(n \div 10) \o <<Digits[(n % 10) + 1]>>

\* s.split(c)
RECURSIVE Split(_, _)
Split(s, c) ==
    LET i == IndexOf(s, c)
    IN IF i = 0 THEN <<s>>
       ELSE <<SubSeq(s, 1, i - 1)>> \o Split(SubSeq(s, i + 1, Len(s)), c)

\* vblade-persist ls --no-header prints one line "shelf slot netif source
\* auto stat" for every export that is set up; stat is run or down (a word
\* of the line is one character of the sequence)
LsLine(slot, level) ==
    Str(slot[1]) \o <<" ">> \o Str(slot[2]) \o
    <<" ", "eth0", " ", "dev", " ", "auto", " ">> \o
    <<IF level = 2 THEN "run" ELSE "down">>

\* out.split('\n') of the output of vblade-persist ls, as a set of lines
LsOutput(tl) == {LsLine(sl, tl[sl]) : sl \in {x \in DOMAIN tl : tl[x] >= 1}}

\* Mutant: check_for_export does not look at the status column.
ExportedAnyStatus(param, slot) ==
    /\ Len(param) = 6
    /\ param[1] = Str(slot[1])
    /\ param[2] = Str(slot[2])

\* check_for_export: len(param) == 6 and param[0] == str(shelf_id) and
\* param[1] == str(blade_id) and param[-1] == "run"
Exported(param, slot) ==
    /\ Len(param) = 6
    /\ param[1] = Str(slot[1])
    /\ param[2] = Str(slot[2])
    /\ param[Len(param)] = <<"run">>

\* Mutant: check_for_export reports a volume without a slot as exported.
CheckNotFoundIgnored == "ok"

\* check_for_export: the NotFound of the lookup is not caught
CheckNotFound == "NotFound"

AoeCheckForExportCall(p, v) ==
    /\ proto = "aoe"
    /\ ExpCall(p, "check_for_export", v, "chk_lookup")

\* check_for_export: self.db.volume_get_shelf_and_blade(context, volume_id)
AoeCheckLookup(p) ==
    /\ proto = "aoe"
    /\ e_pc[p] = "chk_lookup"
    /\ LET slots == SlotsOf(rows, e_call[p].vol)
       IN IF slots = {}
          THEN /\ ExpFinish(p, CheckNotFound)
               /\ UNCHANGED e_slot
          ELSE \E sl \in slots :
                  /\ e_slot' = [e_slot EXCEPT ![p] = sl]
                  /\ ExpGoto(p, "chk_ls")
    /\ UNCHANGED <<proto, rows, tool, e_call, e_idx, e_cmds, e_calls, e_started,
                   tryVars, volVars, discVars>>

\* check_for_export: out = _execute(vblade-persist ls --no-header), the loop
\* over the lines, and the raise when no line matches
AoeCheckLs(p) ==
    /\ proto = "aoe"
    /\ e_pc[p] = "chk_ls"
    /\ \E ok \in BOOLEAN :
          LET out == IF ok THEN LsOutput(tool) ELSE {}
          IN /\ ExpLog(p, "ls", out, ok)
             /\ IF ok /\ \E line \in out : Exported(Split(line, " "), e_slot[p])
                THEN ExpFinish(p, "ok")
                ELSE ExpFinish(p, "error")
    /\ UNCHANGED <<proto, rows, tool, e_call, e_idx, e_slot, e_calls, e_started,
                   tryVars, volVars, discVars>>

IscsiCheckForExportCall(p, v) ==
    /\ proto = "iscsi"
    /\ ExpCall(p, "check_for_export", v, "chk_lookup")

\* check_for_export: tid = self.db.volume_get_iscsi_target_num(context, id)
IscsiCheckLookup(p) ==
    /\ proto = "iscsi"
    /\ e_pc[p] = "chk_lookup"
    /\ LET slots == SlotsOf(rows, e_call[p].vol)
       IN IF slots = {}
          THEN /\ ExpFinish(p, CheckNotFound)
               /\ UNCHANGED e_slot
          ELSE \E sl \in slots :
                  /\ e_slot' = [e_slot EXCEPT ![p] = sl]
                  /\ ExpGoto(p, "chk_show")
    /\ UNCHANGED <<proto, rows, tool, e_call, e_idx, e_cmds, e_calls, e_started,
                   tryVars, volVars, discVars>>

\* Mutant: check_for_export swallows the error of ietadm --op show.
CheckShowFailureIgnored == "ok"

\* check_for_export: except ProcessExecutionError: logging.error(..); raise
CheckShowFailure == "error"

\* check_for_export: try: self._execute(ietadm --op show --tid=..)
IscsiCheckShow(p) ==
    /\ proto = "iscsi"
    /\ e_pc[p] = "chk_show"
    /\ \E ok \in TargetStatus(e_slot[p]) :
          /\ ExpLog(p, "show", e_slot[p], ok)
          /\ ExpFinish(p, IF ok THEN "ok" ELSE CheckShowFailure)
    /\ UNCHANGED <<proto, rows, tool, e_call, e_idx, e_slot, e_calls, e_started,
                   tryVars, volVars, discVars>>

\* device_path = 'e%(shelf_id)d.%(blade_id)d'
DevicePath(slot) == <<"e">> \o Str(slot[1]) \o <<".">> \o Str(slot[2])

\* aoe-stat prints one line per device the host sees; the host sees none or
\* one of the exports that run
StatOutputs(tl) ==
    {<<>>} \cup {DevicePath(sl) \o <<" ", "up">> :
                    sl \in {x \in DOMAIN tl : tl[x] = 2}}

AoeDiscoverVolumeCall(p, v) ==
    /\ proto = "aoe"
    /\ ExpCall(p, "discover_volume", v, "dsc_lookup")

\* discover_volume: self.db.volume_get_shelf_and_blade(context, id)
AoeDiscoverLookup(p) ==
    /\ proto = "aoe"
    /\ e_pc[p] = "dsc_lookup"
    /\ LET slots == SlotsOf(rows, e_call[p].vol)
       IN IF slots = {}
          THEN /\ ExpFinish(p, "NotFound")
               /\ UNCHANGED e_slot
          ELSE \E sl \in slots :
                  /\ e_slot' = [e_slot EXCEPT ![p] = sl]
                  /\ ExpGoto(p, "dsc_discover")
    /\ UNCHANGED <<proto, rows, tool, e_call, e_idx, e_cmds, e_calls, e_started,
                   tryVars, volVars, discVars>>

\* discover_volume: self._execute(aoe-discover)
AoeDiscover(p) ==
    /\ proto = "aoe"
    /\ e_pc[p] = "dsc_discover"
    /\ \E ok \in BOOLEAN :
          /\ ExpLog(p, "aoe_discover", NoSlot, ok)
          /\ IF ok THEN ExpGoto(p, "dsc_stat") ELSE ExpFinish(p, "error")
    /\ UNCHANGED <<proto, rows, tool, e_call, e_idx, e_slot, e_calls, e_started,
                   tryVars, volVars, discVars>>

\* discover_volume: out = _execute(aoe-stat, check_exit_code=False); if
\* out.find(device_path) >= 0: return "/dev/etherd/.."; else: return
AoeStat(p) ==
    /\ proto = "aoe"
    /\ e_pc[p] = "dsc_stat"
    /\ \E ok \in BOOLEAN :
          \E out \in IF ok THEN StatOutputs(tool) ELSE {<<>>} :
             /\ ExpLog(p, "aoe_stat", out, ok)
             /\ IF Contains(DevicePath(e_slot[p]), out)
                THEN ExpFinish(p, "ok")
                ELSE ExpFinish(p, "returned None")
    /\ UNCHANGED <<proto, rows, tool, e_call, e_idx, e_slot, e_calls, e_started,
                   tryVars, volVars, discVars>>

\* VolumeDriver.__init__: the service restarts between two calls and process p
\* goes on with a fresh driver instance. The instance holds the db API and
\* the executor only; e_idx, e_slot and e_tries are locals of the methods,
\* which keep here what the last call left in them until the next call starts
DriverRestart(p) ==
    /\ e_pc[p] = "idle"
    /\ e_calls > 0
    /\ e_started' = e_started \cup {<<"restart", NoVol>>}
    /\ UNCHANGED <<proto, rows, tool, e_pc, e_call, e_idx, e_slot, e_tries,
                   e_cmds, e_res, e_calls, tryVars, volVars, discVars>>

\* The volume service of one host: a single driver process (process 1) makes
\* its calls one after the other, ensure_export (run for every volume when
\* the service starts), check_for_export and the AoE discover_volume among
\* them; the service may restart between two calls.
ServeNext ==
    \/ \E v \in Vols : IscsiCreateExportCall(1, v)
    \/ IscsiEnsureCount(1)
    \/ IscsiEnsureCreate(1)
    \/ IscsiAllocate(1)
    \/ IscsiNewTarget(1)
    \/ IscsiNewLun(1)
    \/ \E v \in Vols : IscsiEnsureExportCall(1, v)
    \/ IscsiEnsureLookup(1)
    \/ IscsiEnsureTarget(1)
    \/ IscsiEnsureLun(1)
    \/ \E v \in Vols : IscsiRemoveExportCall(1, v)
    \/ IscsiRemoveLookup(1)
    \/ IscsiRemoveShow(1)
    \/ IscsiDeleteLun(1)
    \/ IscsiDeleteTarget(1)
    \/ \E v \in Vols : AoeCreateExportCall(1, v)
    \/ AoeEnsureCount(1)
    \/ AoeEnsureCreate(1)
    \/ AoeAllocate(1)
    \/ AoeSetup(1)
    \/ AoeAutoAll(1)
    \/ AoeStartAll(1)
    \/ \E v \in Vols : AoeEnsureExportCall(1, v)
    \/ AoeEnsurePass(1)
    \/ \E v \in Vols : AoeRemoveExportCall(1, v)
    \/ AoeRemoveLookup(1)
    \/ AoeStop(1)
    \/ AoeDestroy(1)
    \/ \E v \in Vols : IscsiCheckForExportCall(1, v)
    \/ IscsiCheckLookup(1)
    \/ IscsiCheckShow(1)
    \/ \E v \in Vols : AoeCheckForExportCall(1, v)
    \/ AoeCheckLookup(1)
    \/ AoeCheckLs(1)
    \/ \E v \in Vols : AoeDiscoverVolumeCall(1, v)
    \/ AoeDiscoverLookup(1)
    \/ AoeDiscover(1)
    \/ AoeStat(1)
    \/ \E v \in Vols : VolumeDestroy(v)
    \/ DriverRestart(1)

SpecServe == ExpInit /\ [][ServeNext]_vars

\* the last command a process has logged: <<command, argument or output, ok>>
LastCmd(cmds) == cmds[Len(cmds)]

\* C23: an AoE discover_volume whose aoe-stat output does not show the
\* volume's device fails with DeviceNotFound; it never returns normally
\* without a device path.
C23_AoeDiscoverFailsWithoutDevice ==
    [][(/\ e_pc[1] = "dsc_stat"
        /\ e_pc'[1] = "idle"
        /\ ~Contains(DevicePath(e_slot[1]), LastCmd(e_cmds'[1])[2]))
          => e_res'[1] = "DeviceNotFound"]_vars

\* C25: the AoE check_for_export succeeds exactly when vblade-persist ls
\* succeeded and printed a line with the volume's shelf, the volume's blade
\* and the status run; for any other output it fails with the error that
\* carries the output, and it changes neither the registry nor the exports.
C25_AoeCheckForExportParsesStatus ==
    [][(e_pc[1] = "chk_ls" /\ e_pc'[1] = "idle" /\ proto = "aoe") =>
          LET c == LastCmd(e_cmds'[1])
          IN /\ e_res'[1] = "ok" <=> (c[3] /\ LsLine(e_slot[1], 2) \in c[2])
             /\ e_res'[1] \in {"ok", "error"}
             /\ rows' = rows
             /\ tool' = tool]_vars

\* a failing AoE check_for_export whose output has the volume's line with the
\* status down and a running line of another shelf and blade
C25_Witness ==
    /\ proto = "aoe"
    /\ e_pc[1] = "idle"
    /\ e_call[1] # <<>>
    /\ e_call[1].op = "check_for_export"
    /\ e_res[1] = "error"
    /\ LET c == LastCmd(e_cmds[1])
       IN /\ c[1] = "ls"
          /\ c[3]
          /\ LsLine(e_slot[1], 1) \in c[2]
          /\ \E sl \in DOMAIN tool : sl # e_slot[1] /\ LsLine(sl, 2) \in c[2]

\* C26: check_for_export on a volume that has no slot fails, whatever the
\* tools would report, and runs no command.
C26_CheckForExportNoSlot ==
    [][(/\ e_pc[1] = "chk_lookup"
        /\ e_pc'[1] # "chk_lookup"
        /\ SlotsOf(rows, e_call[1].vol) = {})
          => /\ e_pc'[1] = "idle"
             /\ e_res'[1] = "NotFound"
             /\ e_cmds'[1] = <<>>
             /\ rows' = rows
             /\ tool' = tool]_vars

\* a check_for_export that failed for lack of a slot while an export of
\* another volume is live in the tool
C26_Witness ==
    /\ e_pc[1] = "idle"
    /\ e_call[1] # <<>>
    /\ e_call[1].op = "check_for_export"
    /\ e_res[1] = "NotFound"
    /\ SlotsOf(rows, e_call[1].vol) = {}
    /\ \E sl \in DOMAIN tool : tool[sl] = 2

\* C27: the iSCSI check_for_export succeeds exactly when ietadm --op show
\* succeeds for the recorded target; it fails when the target is not live in
\* the tool, and it changes neither the registry nor the tool.
C27_IscsiCheckForExportLive ==
    [][(e_pc[1] = "chk_show" /\ e_pc'[1] = "idle" /\ proto = "iscsi") =>
          LET c == LastCmd(e_cmds'[1])
          IN /\ c[1] = "show"
             /\ c[2] = e_slot[1]
             /\ e_res'[1] = "ok" <=> c[3]
             /\ tool[e_slot[1]] = 0 => e_res'[1] # "ok"
             /\ rows' = rows
             /\ tool' = tool]_vars

\* a failed iSCSI check_for_export of a volume whose slot is recorded while
\* the tool has no target for it
C27_Witness ==
    /\ proto = "iscsi"
    /\ e_pc[1] = "idle"
    /\ e_call[1] # <<>>
    /\ e_call[1].op = "check_for_export"
    /\ e_res[1] = "error"
    /\ e_slot[1] \in SlotsOf(rows, e_call[1].vol)
    /\ tool[e_slot[1]] = 0

(***************************************************************************)
(* check_for_setup_error, local_path, and the export and discovery methods *)
(* of RBDDriver and SheepdogDriver                                         *)
(***************************************************************************)
\* FLAGS.volume_group ('nova-volumes') and FLAGS.rbd_pool ('rbd')
VolumeGroup == <<"n", "-", "v">>
RbdPool == <<"r">>

\* volume['name']
Names == UNION {[1..k -> {"a", "-"}] : k \in 1..MaxNameLen}

\* s.split()
RECURSIVE SplitWs(_)
SplitWs(s) ==
    IF s = <<>> THEN <<>>
    ELSE IF Head(s) \in {" ", "\n"} THEN SplitWs(Tail(s))
    ELSE LET stops == {i \in 1..Len(s) : s[i] \in {" ", "\n"}}
             n == IF stops = {} THEN Len(s) + 1
                  ELSE CHOOSE i \in stops : \A j \in stops : i <= j
         IN <<SubSeq(s, 1, n - 1)>> \o SplitWs(SubSeq(s, n, Len(s)))

\* x in list
In(x, list) == \E i \in 1..Len(list) : list[i] = x

\* the lines of an output, one after the other
RECURSIVE Join(_)
Join(lines) == IF lines = <<>> THEN <<>> ELSE Head(lines) \o Join(Tail(lines))

\* the outputs of up to MaxLines lines
Outputs(lines) == {Join(l) : l \in UNION {[1..k -> lines] : k \in 0..MaxLines}}

\* vgs --noheadings -o name prints one indented name per line
VgsOutputs ==
    Outputs({<<" ", " ">> \o g \o <<"\n">> :
                g \in {VolumeGroup, VolumeGroup \o <<"2">>, <<"x">>}})

\* rados lspools prints one name per line
LspoolsOutputs ==
    Outputs({g \o <<"\n">> : g \in {RbdPool, RbdPool \o <<"2">>, <<"d">>}})

\* collie cluster info prints the cluster status first
ClusterInfoOutputs ==
    {<<>>, <<"running", "\n">>, <<"waiting", "\n">>,
     <<"not", " ", "running", "\n">>}

\* Mutant: the status is looked for anywhere in the output.
StartsWithAnywhere(prefix, s) ==
    \E i \in 0..(Len(s) - Len(prefix)) : SubSeq(s, i + 1, i + Len(prefix)) = prefix

\* s.startswith(prefix)
StartsWith(prefix, s) ==
    Len(s) >= Len(prefix) /\ SubSeq(s, 1, Len(prefix)) = prefix

\* Mutant: the dashes are dropped.
RECURSIVE EscapedDropsDashes(_)
EscapedDropsDashes(s) ==
    IF s = <<>> THEN <<>>
    ELSE (IF Head(s) = "-" THEN <<>> ELSE <<Head(s)>>) \o EscapedDropsDashes(Tail(s))

\* s.replace('-', '--')
RECURSIVE Escaped(_)
Escaped(s) ==
    IF s = <<>> THEN <<>>
    ELSE (IF Head(s) = "-" THEN <<"-", "-">> ELSE <<Head(s)>>) \o Escaped(Tail(s))

\* local_path of VolumeDriver, RBDDriver and SheepdogDriver
LocalPath(driver, name) ==
    CASE driver = "lvm" -> <<"/dev/mapper/">> \o Escaped(VolumeGroup) \o <<"-">> \o Escaped(name)
      [] driver = "rbd" -> <<"rbd:">> \o RbdPool \o <<"/">> \o name
      [] OTHER          -> <<"sheepdog:">> \o name

\* Mutant: discover_volume returns the bare name.
DiscoveredPathBare(driver, name) == name

\* discover_volume of RBDDriver and SheepdogDriver
DiscoveredPath(driver, name) ==
    IF driver = "rbd" THEN <<"rbd:">> \o RbdPool \o <<"/">> \o name
    ELSE <<"sheepdog:">> \o name

\* a call returns or raises: res is "ok" or the error, ret the value returned
AdminFinish(op, name, log, res, ret) ==
    /\ v_hist' = Append(v_hist, [op |-> op, vol |-> name, log |-> log,
                                 res |-> res, ret |-> ret])
    /\ v_pc' = "idle"
    /\ v_call' = <<>>
    /\ UNCHANGED <<v_driver, backing, v_tries, v_log, tryVars, expVars, discVars>>

CheckForSetupErrorCall ==
    /\ v_pc = "idle"
    /\ Len(v_hist) < MaxQueries
    /\ v_call' = [op |-> "check_for_setup_error"]
    /\ v_pc' = CASE v_driver = "lvm" -> "vgs"
                 [] v_driver = "rbd" -> "lspools"
                 [] OTHER            -> "cluster_info"
    /\ UNCHANGED <<v_driver, backing, v_tries, v_log, v_hist,
                   tryVars, expVars, discVars>>

\* VolumeDriver.check_for_setup_error
VgsQuery ==
    /\ v_pc = "vgs"
    /\ \E ok \in BOOLEAN :
          \E out \in IF ok THEN VgsOutputs ELSE {<<>>} :
             AdminFinish(v_call.op, <<>>, <<<<"vgs", out, ok>>>>,
                         IF ~ok THEN "ProcessExecutionError"
                         ELSE IF In(VolumeGroup, SplitWs(out)) THEN "ok"
                         ELSE "Error",
                         <<>>)

\* RBDDriver.check_for_setup_error
LspoolsQuery ==
    /\ v_pc = "lspools"
    /\ \E ok \in BOOLEAN :
          \E out \in IF ok THEN LspoolsOutputs ELSE {<<>>} :
             AdminFinish(v_call.op, <<>>, <<<<"lspools", out, ok>>>>,
                         IF ~ok THEN "ProcessExecutionError"
                         ELSE IF In(RbdPool, Split(out, "\n")) THEN "ok"
                         ELSE "Error",
                         <<>>)

\* SheepdogDriver.check_for_setup_error
ClusterInfoQuery ==
    /\ v_pc = "cluster_info"
    /\ \E ok \in BOOLEAN :
          \E out \in IF ok THEN ClusterInfoOutputs ELSE {<<>>} :
             AdminFinish(v_call.op, <<>>, <<<<"cluster_info", out, ok>>>>,
                         IF ok /\ StartsWith(<<"running">>, out) THEN "ok"
                         ELSE "Error",
                         <<>>)

PassOps == {"ensure_export", "create_export", "remove_export", "undiscover_volume"}

\* ensure_export, create_export, remove_export and undiscover_volume of
\* RBDDriver and SheepdogDriver: pass
ExportPass(op, name) ==
    /\ v_driver \in {"rbd", "sheepdog"}
    /\ v_pc = "idle"
    /\ Len(v_hist) < MaxQueries
    /\ AdminFinish(op, name, <<>>, "ok", <<>>)

\* discover_volume of RBDDriver and SheepdogDriver
NamedDiscoverVolume(name) ==
    /\ v_driver \in {"rbd", "sheepdog"}
    /\ v_pc = "idle"
    /\ Len(v_hist) < MaxQueries
    /\ AdminFinish("discover_volume", name, <<>>, "ok",
                   DiscoveredPath(v_driver, name))

\* local_path of VolumeDriver, RBDDriver and SheepdogDriver
LocalPathCall(name) ==
    /\ v_pc = "idle"
    /\ Len(v_hist) < MaxQueries
    /\ AdminFinish("local_path", name, <<>>, "ok", LocalPath(v_driver, name))

AdminNext ==
    \/ CheckForSetupErrorCall
    \/ VgsQuery
    \/ LspoolsQuery
    \/ ClusterInfoQuery
    \/ \E op \in PassOps, name \in Names : ExportPass(op, name)
    \/ \E name \in Names : NamedDiscoverVolume(name)
    \/ \E name \in Names : LocalPathCall(name)

SpecAdmin == VolInit /\ [][AdminNext]_vars

CallsOf(ops) == {i \in 1..Len(v_hist) : v_hist[i].op \in ops}

\* name stands in out as a whole word between separators
Listed(name, out, seps) ==
    \E i \in 1..Len(out) :
       /\ i + Len(name) - 1 <= Len(out)
       /\ SubSeq(out, i, i + Len(name) - 1) = name
       /\ IF i = 1 THEN TRUE ELSE out[i - 1] \in seps
       /\ IF i + Len(name) > Len(out) THEN TRUE ELSE out[i + Len(name)] \in seps

\* what check_for_setup_error has to find in the output of its query
Prerequisite(driver, out) ==
    CASE driver = "lvm" -> Listed(VolumeGroup, out, {" ", "\n"})
      [] driver = "rbd" -> Listed(RbdPool, out, {"\n"})
      [] OTHER          -> out # <<>> /\ out[1] = "running"

\* C28: check_for_setup_error fails exactly when its query command fails or
\* the output lacks the prerequisite (LVM: the configured volume group among
\* the listed groups, RBD: the configured pool among the listed pools,
\* Sheepdog: an output that starts with running); it runs that one query
\* command only and changes no state.
C28_State ==
    \A i \in CallsOf({"check_for_setup_error"}) :
       LET c == v_hist[i].log[1]
       IN /\ Len(v_hist[i].log) = 1
          /\ c[1] \in {"vgs", "lspools", "cluster_info"}
          /\ v_hist[i].res # "ok" <=> (~c[3] \/ ~Prerequisite(v_driver, c[2]))

C28_Action ==
    (v_pc \in {"vgs", "lspools", "cluster_info"}) =>
       /\ backing' = backing
       /\ rows' = rows
       /\ tool' = tool
       /\ v_driver' = v_driver

C28_SetupErrorIffPrerequisiteMissing == []C28_State /\ [][C28_Action]_vars

\* a Sheepdog check that failed on an output that mentions running but does
\* not start with it
C28_Witness ==
    /\ v_driver = "sheepdog"
    /\ \E i \in CallsOf({"check_for_setup_error"}) :
          /\ v_hist[i].res = "Error"
          /\ v_hist[i].log[1][3]
          /\ v_hist[i].log[1][2] = <<"not", " ", "running", "\n">>

\* C29: with the RBD and Sheepdog drivers, create_export, ensure_export,
\* remove_export and undiscover_volume return without a command and without
\* touching the registry, no slot is ever allocated, and discover_volume
\* returns the string local_path returns for the same volume.
C29_State ==
    v_driver \in {"rbd", "sheepdog"} =>
       /\ rows = {}
       /\ tool = <<>>
       /\ \A i \in CallsOf(PassOps) :
             /\ v_hist[i].res = "ok"
             /\ v_hist[i].log = <<>>
             /\ v_hist[i].ret = <<>>
       /\ \A i \in CallsOf({"discover_volume"}) :
             /\ v_hist[i].res = "ok"
             /\ v_hist[i].log = <<>>
             /\ v_hist[i].ret = LocalPath(v_driver, v_hist[i].vol)
             /\ \A j \in CallsOf({"local_path"}) :
                   v_hist[j].vol = v_hist[i].vol => v_hist[j].ret = v_hist[i].ret

C29_Action ==
    (v_driver \in {"rbd", "sheepdog"} /\ Len(v_hist') > Len(v_hist)
        /\ v_hist'[Len(v_hist')].op \in PassOps \cup {"discover_volume"}) =>
       /\ backing' = backing
       /\ UNCHANGED expVars

C29_NameBasedExportsAreNoOps == []C29_State /\ [][C29_Action]_vars

\* discover_volume and local_path were both called for one volume
C29_Witness ==
    /\ v_driver \in {"rbd", "sheepdog"}
    /\ \E i \in CallsOf({"discover_volume"}), j \in CallsOf({"local_path"}) :
          v_hist[i].vol = v_hist[j].vol /\ v_hist[i].ret = v_hist[j].ret

\* C30: local_path returns without a command or a state change, the same
\* path for the same name, and with the LVM-backed drivers different paths
\* under /dev/mapper for different names, with or without dashes.
C30_State ==
    \A i \in CallsOf({"local_path"}) :
       /\ v_hist[i].res = "ok"
       /\ v_hist[i].log = <<>>
       /\ v_driver = "lvm" => v_hist[i].ret[1] = "/dev/mapper/"
       /\ \A j \in CallsOf({"local_path"}) :
             /\ v_hist[i].vol = v_hist[j].vol => v_hist[i].ret = v_hist[j].ret
             /\ (v_driver = "lvm" /\ v_hist[i].vol # v_hist[j].vol)
                   => v_hist[i].ret # v_hist[j].ret

C30_Action ==
    (Len(v_hist') > Len(v_hist) /\ v_hist'[Len(v_hist')].op = "local_path") =>
       /\ backing' = backing
       /\ UNCHANGED expVars

C30_LocalPathInjective == []C30_State /\ [][C30_Action]_vars

\* local_path of the LVM driver for a name with a dash and for the same name
\* without it
C30_Witness ==
    /\ v_driver = "lvm"
    /\ \E i, j \in CallsOf({"local_path"}) :
          /\ v_hist[i].vol = <<"a", "-">>
          /\ v_hist[j].vol = <<"a">>
          /\ v_hist[i].ret # v_hist[j].ret

\* the locals of a method when it is entered
FreshLocals == <<0, NoSlot, 0>>

InCall(pr, op) == proto = pr /\ e_call[1] # <<>> /\ e_call[1].op = op

\* C34: the iSCSI create_export populates the pool, then allocates one target
\* number, then registers the target, then binds LUN 0: no command is issued
\* before the allocation, both commands carry the target number just
\* allocated, and the LUN bind is issued only after a successful target
\* registration.
C34_State ==
    InCall("iscsi", "create_export") =>
       LET c == e_cmds[1]
       IN /\ e_pc[1] \in {"count", "populate", "allocate"} =>
                c = <<>> /\ e_slot[1] = NoSlot
          /\ e_pc[1] \in {"allocate", "new_target", "new_lun"} =>
                TargetCount(rows, HostOf(e_call[1].vol)) >= NumTargets
          /\ e_pc[1] \in {"new_target", "new_lun"} =>
                e_slot[1] \in SlotsOf(rows, e_call[1].vol)
          /\ Len(c) <= 2
          /\ Len(c) >= 1 => c[1][1] = "new_target" /\ c[1][2] = e_slot[1]
          /\ Len(c) = 2 => c[2][1] = "new_lun" /\ c[2][2] = e_slot[1] /\ c[1][3]
          /\ (e_pc[1] = "idle" /\ e_res[1] = "ok") => Len(c) = 2 /\ c[2][3]

C34_Action ==
    (InCall("iscsi", "create_export") /\ e_pc[1] \in {"new_target", "new_lun"}
        /\ e_pc'[1] # e_pc[1]) =>
       /\ rows' = rows
       /\ e_slot' = e_slot

C34_IscsiCreateExportOrder == []C34_State /\ [][C34_Action]_vars

\* a create_export that registered the target and failed to bind the LUN
C34_Witness ==
    /\ InCall("iscsi", "create_export")
    /\ e_pc[1] = "idle"
    /\ e_res[1] = "error"
    /\ Len(e_cmds[1]) = 2
    /\ e_cmds[1][1][3]
    /\ ~e_cmds[1][2][3]

\* C35: the iSCSI ensure_export of a volume with a recorded slot issues the
\* target registration and the LUN bind with the recorded target number,
\* leaves the registry as it is and returns success whatever the exit codes
\* of the two commands, so repeating it changes neither registry nor result.
C35_State ==
    (InCall("iscsi", "ensure_export") /\ e_slot[1] # NoSlot) =>
       LET c == e_cmds[1]
       IN /\ Len(c) <= 2
          /\ Len(c) >= 1 => c[1][1] = "new_target" /\ c[1][2] = e_slot[1]
          /\ Len(c) = 2 => c[2][1] = "new_lun" /\ c[2][2] = e_slot[1]
          /\ e_pc[1] = "idle" => e_res[1] = "ok" /\ Len(c) = 2

C35_Action ==
    (InCall("iscsi", "ensure_export") /\ e_pc[1] # "idle" /\ e_pc'[1] # e_pc[1]) =>
       /\ rows' = rows
       /\ e_pc[1] = "ens_lookup" =>
             e_slot'[1] \in SlotsOf(rows, e_call[1].vol) \cup {NoSlot}
       /\ e_pc[1] # "ens_lookup" =>
             e_slot' = e_slot /\ e_slot[1] \in SlotsOf(rows, e_call[1].vol)

C35_IscsiEnsureExportIdempotent == []C35_State /\ [][C35_Action]_vars

\* an ensure_export that returned success although the tool rejected both
\* commands because target and LUN exist already
C35_Witness ==
    /\ InCall("iscsi", "ensure_export")
    /\ e_pc[1] = "idle"
    /\ e_res[1] = "ok"
    /\ Len(e_cmds[1]) = 2
    /\ ~e_cmds[1][1][3]
    /\ ~e_cmds[1][2][3]
    /\ tool[e_slot[1]] = 2

\* the positions of the commands named cmd in a command list
CmdsNamed(c, cmd) == {j \in 1..Len(c) : c[j][1] = cmd}

\* C36: the AoE create_export issues vblade-persist setup, retried up to
\* num_shell_tries times, before auto all and start all; it fails only when
\* no slot is free or when setup failed on every try, never because auto all
\* or start all exited non-zero.
C36_AoeCreateExportBestEffortActivation ==
    InCall("aoe", "create_export") =>
       LET c == e_cmds[1]
           setups == CmdsNamed(c, "setup")
       IN /\ \A j \in 1..Len(c) : c[j][1] \in {"setup", "auto_all", "start_all"}
          /\ \A j \in setups :
                /\ c[j][2] = e_slot[1]
                /\ j > 1 => c[j - 1] = <<"setup", e_slot[1], FALSE>>
          /\ Cardinality(setups) <= num_shell_tries
          /\ \A j \in CmdsNamed(c, "auto_all") :
                j > 1 /\ c[j - 1] = <<"setup", e_slot[1], TRUE>>
          /\ \A j \in CmdsNamed(c, "start_all") :
                j > 1 /\ c[j - 1][1] = "auto_all" /\ j = Len(c)
          /\ e_pc[1] = "idle" =>
                /\ e_res[1] \in {"ok", "error", "PoolExhausted"}
                /\ e_res[1] = "ok" <=> CmdsNamed(c, "start_all") # {}
                /\ e_res[1] = "error" <=>
                      /\ Cardinality(setups) = num_shell_tries
                      /\ \A j \in setups : ~c[j][3]
                      /\ Len(c) = num_shell_tries
                /\ e_res[1] = "PoolExhausted" <=> (c = <<>> /\ e_slot[1] = NoSlot)

\* a create_export that returned success after a retried setup although auto
\* all and start all both exited non-zero
C36_Witness ==
    /\ InCall("aoe", "create_export")
    /\ e_pc[1] = "idle"
    /\ e_res[1] = "ok"
    /\ Len(e_cmds[1]) = 4
    /\ ~e_cmds[1][1][3]
    /\ ~e_cmds[1][3][3]
    /\ ~e_cmds[1][4][3]

\* C37: when create_export ends with the error of a tool command (iSCSI:
\* target registration or LUN bind; AoE: setup failed on every try), the
\* failing step leaves the registry as it is: the slot allocated by the call
\* is still recorded for the volume and is not free.
C37_NoRollbackOnToolFailure ==
    [][(/\ e_call[1] # <<>>
        /\ e_call[1].op = "create_export"
        /\ e_pc[1] \in {"new_target", "new_lun", "setup"}
        /\ e_pc'[1] = "idle"
        /\ e_res'[1] # "ok") =>
          /\ e_res'[1] = "error"
          /\ rows' = rows
          /\ e_slot[1] \in SlotsOf(rows', e_call[1].vol)
          /\ \A r \in rows' : r.slot = e_slot[1] => r.vol = e_call[1].vol]_vars

\* a create_export has failed in its first tool command: its slot is recorded
\* for the volume, no other slot is in use and the tool has no export for it
C37_Witness ==
    /\ e_call[1] # <<>>
    /\ e_call[1].op = "create_export"
    /\ e_pc[1] = "idle"
    /\ e_res[1] = "error"
    /\ e_slot[1] \in SlotsOf(rows, e_call[1].vol)
    /\ tool[e_slot[1]] = 0
    /\ Cardinality({r \in rows : r.vol # NoVol}) = 1


(***************************************************************************)
(* LoggingVolumeDriver                                                     *)
(***************************************************************************)
\* a volume record is a dict, here the set of its <<key, value>> items; a
\* volume id is an integer. An argument carries its type: <<"dict", items>>
\* or <<"int", n>>
VolumeRecords ==
    {{}, {<<"id", "1">>}, {<<"id", "2">>, <<"action", "x">>}}
VolumeIds == {0, 1, 2}

\* the methods of LoggingVolumeDriver that take a volume record
RecordMethods ==
    {"create_volume", "delete_volume", "ensure_export", "create_export",
     "remove_export", "discover_volume", "undiscover_volume"}

\* if parameters: (an empty dict and 0 are false)
Truthy(arg) == IF arg[1] = "dict" THEN arg[2] # {} ELSE arg[2] # 0

\* log_action: <<"ok", the dictionary appended to _LOGS>>, or "TypeError"
\* when dict(parameters) raises because parameters is an integer
LogAction(action, arg) ==
    IF Truthy(arg) /\ arg[1] # "dict" THEN <<"TypeError", {}>>
    ELSE LET copied == IF Truthy(arg) THEN arg[2] ELSE {}
         IN <<"ok", {kv \in copied : kv[1] # "action"} \cup {<<"action", action>>}>>

LoggingInit ==
    /\ TryIdle
    /\ ExpIdle
    /\ DiscIdle
    /\ v_driver = "logging"
    /\ backing = [v \in Vols |-> NoBacking]
    /\ v_pc = "idle"
    /\ v_call = <<>>
    /\ v_tries = 0
    /\ v_log = <<>>
    /\ v_hist = <<>>

\* a method of LoggingVolumeDriver: self.log_action(name, argument); v_log is
\* LoggingVolumeDriver._LOGS
LoggingCall(op, arg) ==
    /\ v_driver = "logging"
    /\ Len(v_hist) < MaxQueries
    /\ LET entry == LogAction(op, arg)
       IN /\ v_hist' = Append(v_hist, [op |-> op, arg |-> arg, res |-> entry[1]])
          /\ v_log' = IF entry[1] = "ok" THEN Append(v_log, entry[2]) ELSE v_log
    /\ UNCHANGED <<v_driver, backing, v_pc, v_call, v_tries,
                   tryVars, expVars, discVars>>

\* create_volume .. undiscover_volume: self.log_action(name, volume)
LoggingRecordMethod(op, vol) == LoggingCall(op, <<"dict", vol>>)

\* check_for_export: self.log_action('check_for_export', volume_id)
LoggingCheckForExport(id) == LoggingCall("check_for_export", <<"int", id>>)

LoggingNext ==
    \/ \E op \in RecordMethods, vol \in VolumeRecords : LoggingRecordMethod(op, vol)
    \/ \E id \in VolumeIds : LoggingCheckForExport(id)

SpecLogging == LoggingInit /\ [][LoggingNext]_vars

\* C33: every call of a LoggingVolumeDriver method returns without error and
\* appends one entry tagged with the method's name, so the log lists the
\* calls in the order they were made.
C33_LoggingDriverLogsEveryCall ==
    /\ Len(v_log) = Len(v_hist)
    /\ \A i \in 1..Len(v_hist) :
          /\ v_hist[i].res = "ok"
          /\ i <= Len(v_log) => <<"action", v_hist[i].op>> \in v_log[i]

====
